---- MODULE Spec2Model ----
(***************************************************************************)
(* Model of the generation orchestrator of the chat server:                *)
(*   src/src/app/api/stream/route.ts          POST /api/stream             *)
(*   src/unnamed/part_002                     StreamRegistry               *)
(*   src/src/app/api/messages/[messageId]/route.ts   POST (stop)           *)
(*   src/unnamed/part_003                     the client's request makers  *)
(*                                            and its turn view            *)
(*   src/unnamed/part_001                     buildPrompt                  *)
(*   src/src/lib/chat-store.ts                the client's store           *)
(* Every request is an asynchronous task; one action is one database       *)
(* operation, or one synchronous segment between two awaits.               *)
(***************************************************************************)
EXTENDS Integers, Sequences, FiniteSets, TLC

MaxGen == 2
MaxShortTokens == 1
MaxTokens == 6

SAVE_EVERY_N_TOKENS == 5

NULL == 0

Reqs == 1..MaxGen

ConvIds == {"c1", "cX"}

\* A store in which every conversation id is found
EveryConvExists == ConvIds

ExistingConvs == {"c1"}

\* The runs explored: MaxGen overlapping requests whose upstream responses carry
\* at most MaxShortTokens fragments, or one request with up to MaxTokens fragments
Configurations == {<<MaxGen, MaxShortTokens>>, <<1, MaxTokens>>}

VARIABLES
  hasApiKey,   \* process.env.OPENAI_API_KEY is set
  title,       \* title of conversation c1
  msgs,        \* Message table of conversation c1, in creation order
  nextId,      \* next fresh message id (uuidv4)
  controllers, \* StreamRegistry.controllers: conversation id -> handle (NULL: no entry)
  abortCause,  \* per AbortController: "none" while not aborted, else who called abort()
  req,         \* per request: body, locals and position in POST
  events,      \* per request: frames enqueued on the response stream
  stream,      \* per request: state of the response ReadableStream
  reqLimit,    \* bound of this run: number of generate requests
  fragLimit,   \* bound of this run: content fragments per upstream response
  prompt,      \* one call of buildPrompt: its arguments and its result
  sse,         \* one response body read by the client: bytes, buffer, dispatched frames
  store,       \* the client's store (chat-store.ts) for conversation c1
  reader,      \* per openStream call of the client: its run() task
  calls,       \* the client's loadConversation and stopStream calls in flight
  turnView     \* BranchingChat: the list it renders and its turns state

serverVars == <<hasApiKey, title, msgs, nextId, controllers, abortCause, req, events, stream, reqLimit, fragLimit>>

\* the variables of the components that have their own specifications below
otherVars == <<prompt, sse, store, reader, calls, turnView>>

vars == <<serverVars, otherVars>>

----------------------------------------------------------------------------
(* Helpers *)

Aborted(h) == abortCause[h] # "none"

Fragment(i) == IF i % 2 = 1 THEN "a" ELSE "b"

Row(id, role, content, status, parentId, variantIndex) ==
  [messageId |-> id, role |-> role, content |-> content, status |-> status,
   parentId |-> parentId, variantIndex |-> variantIndex,
   finishReason |-> "none", completionTokens |-> 0]

RowExists(id) == \E i \in DOMAIN msgs : msgs[i].messageId = id

RowOf(id) == msgs[CHOOSE i \in DOMAIN msgs : msgs[i].messageId = id]

sseChunk(event, data) == [event |-> event, data |-> data]

IsTerminal(e) == e.event \in {"end", "error"}

CanEnqueue(r) == stream[r] = "open"

\* StreamRegistry (src/unnamed/part_002)
RegistrySet(ctl, c, h) == [ctl EXCEPT ![c] = h]

\* A clear that leaves the entry in the map
RegistryClearKeepsEntry(ctl, c) == ctl

RegistryClear(ctl, c) == [ctl EXCEPT ![c] = NULL]

\* prisma.message.findFirst({role ASSISTANT or SYSTEM, orderBy createdAt desc})
LastNonUser ==
  LET idx == {i \in DOMAIN msgs : msgs[i].role \in {"ASSISTANT", "SYSTEM"}}
  IN IF idx = {} THEN NULL
     ELSE msgs[CHOOSE i \in idx : \A j \in idx : j <= i].messageId

InitialRequest ==
  [pc |-> "new", conversationId |-> "c1", isRegeneration |-> FALSE,
   isEditedPrompt |-> FALSE, parentUserMessageId |-> NULL,
   userMessageParentId |-> NULL, parentId |-> NULL, variantIndex |-> 0,
   hasText |-> FALSE, convTitleDefault |-> FALSE, userMessageId |-> NULL,
   parentIdForUser |-> NULL, assistantMessageId |-> NULL, accumulated |-> <<>>,
   completionTokens |-> 0, pendingFinish |-> FALSE, finalWriteFailed |-> FALSE]

SystemRoot == Row(1, "SYSTEM", <<"s">>, "COMPLETE", NULL, 0)

\* no call of buildPrompt
NoPrompt == [pc |-> "none"]

\* no response body being read
NoSse == [pc |-> "none"]

\* create() of the store (chat-store.ts 52-59), for conversation c1
EmptyStore ==
  [messages |-> <<>>, messagesById |-> <<>>, messageIndex |-> <<>>,
   isStreaming |-> FALSE, currentAssistantId |-> NULL, controllers |-> NULL]

\* no run() task: openStream was not called
NoReader == [pc |-> "none", aborted |-> FALSE, pos |-> 0]

\* no response of GET messages awaited, no stopStream awaiting its POST
NoCalls == [loads |-> <<>>, stop |-> FALSE]

\* BranchingChat is not mounted
NoTurnView == [pc |-> "none"]

\* the components outside the server are not running
OthersIdle ==
  /\ prompt = NoPrompt
  /\ sse = NoSse
  /\ store = EmptyStore
  /\ reader = [r \in Reqs |-> NoReader]
  /\ calls = NoCalls
  /\ turnView = NoTurnView

Init ==
  /\ hasApiKey \in BOOLEAN
  /\ title = "New Chat"
  /\ \E withRoot \in BOOLEAN :
       /\ msgs = IF withRoot THEN <<SystemRoot>> ELSE <<>>
       /\ nextId = IF withRoot THEN 2 ELSE 1
  /\ controllers = [c \in ConvIds |-> NULL]
  /\ abortCause = [r \in Reqs |-> "none"]
  /\ req = [r \in Reqs |-> InitialRequest]
  /\ events = [r \in Reqs |-> <<>>]
  /\ stream = [r \in Reqs |-> "none"]
  /\ \E cfg \in Configurations : reqLimit = cfg[1] /\ fragLimit = cfg[2]
  /\ OthersIdle

----------------------------------------------------------------------------
(* The client's request makers (src/unnamed/part_003).  The client builds   *)
(* the request from its own copy of the message list, which is a snapshot   *)
(* of the table taken at some earlier time: a prefix of msgs.               *)

NextNew(r) ==
  /\ r <= reqLimit
  /\ req[r].pc = "new"
  /\ \A q \in Reqs : q < r => req[q].pc # "new"

ClientViews == {SubSeq(msgs, 1, k) : k \in 0..Len(msgs)}

UserRowsOf(view) == {view[i] : i \in {j \in DOMAIN view : view[j].role = "USER"}}

\* turn.assistantVariants[userMessageId]
AssistantVariantsOf(view, userMessageId) ==
  {i \in DOMAIN view : view[i].role = "ASSISTANT" /\ view[i].parentId = userMessageId}

handleSendMessage(r) ==
  /\ NextNew(r)
  /\ \E c \in ConvIds :
       req' = [req EXCEPT ![r] = [@ EXCEPT !.pc = "findConv", !.conversationId = c,
                                            !.hasText = TRUE]]
  /\ UNCHANGED <<hasApiKey, title, msgs, nextId, controllers, abortCause, events, stream, reqLimit, fragLimit, otherVars>>

handleEditUserMessage(r) ==
  /\ NextNew(r)
  /\ \E view \in ClientViews : \E currentUserMessage \in UserRowsOf(view) :
     \E nonEmpty \in BOOLEAN :
       req' = [req EXCEPT ![r] = [@ EXCEPT !.pc = "findConv", !.conversationId = "c1",
                                            !.hasText = nonEmpty,
                                            !.userMessageParentId = currentUserMessage.messageId,
                                            !.isEditedPrompt = TRUE]]
  /\ UNCHANGED <<hasApiKey, title, msgs, nextId, controllers, abortCause, events, stream, reqLimit, fragLimit, otherVars>>

handleRegenerateAssistant(r) ==
  /\ NextNew(r)
  /\ \E view \in ClientViews : \E currentUserMessage \in UserRowsOf(view) :
       LET currentVariants == AssistantVariantsOf(view, currentUserMessage.messageId)
       IN req' = [req EXCEPT ![r] = [@ EXCEPT !.pc = "findConv", !.conversationId = "c1",
                                               !.hasText = currentUserMessage.content # <<>>,
                                               !.parentUserMessageId = currentUserMessage.messageId,
                                               !.variantIndex = Cardinality(currentVariants),
                                               !.isRegeneration = TRUE]]
  /\ UNCHANGED <<hasApiKey, title, msgs, nextId, controllers, abortCause, events, stream, reqLimit, fragLimit, otherVars>>

----------------------------------------------------------------------------
(* POST /api/stream, up to the response (route.ts 64-189) *)

\* route.ts 77-83: the deprecated parentId field
ResolvedParentUserMessageId(b) ==
  IF b.parentUserMessageId = NULL /\ b.parentId # NULL /\ b.isRegeneration
  THEN b.parentId ELSE b.parentUserMessageId

ResolvedUserMessageParentId(b) ==
  IF b.userMessageParentId = NULL /\ b.parentId # NULL /\ ~b.isRegeneration
  THEN b.parentId ELSE b.userMessageParentId

\* The same segment without the credential check of route.ts 85-90
FindConversationNoKeyCheck(r) ==
  /\ req[r].pc = "findConv"
  /\ LET b == req[r]
         pu == ResolvedParentUserMessageId(b)
         up == ResolvedUserMessageParentId(b)
     IN IF b.conversationId \notin ExistingConvs
        THEN /\ req' = [req EXCEPT ![r] = [@ EXCEPT !.pc = "rejected"]]
             /\ events' = [events EXCEPT ![r] = <<sseChunk("error", "Conversation not found")>>]
             /\ stream' = [stream EXCEPT ![r] = "closed"]
        ELSE /\ req' = [req EXCEPT ![r] = [@ EXCEPT
                  !.parentUserMessageId = pu,
                  !.userMessageParentId = up,
                  !.convTitleDefault = (title = "New Chat"),
                  !.userMessageId = IF b.isRegeneration THEN pu ELSE NULL,
                  !.parentIdForUser = up,
                  !.pc = IF b.isRegeneration THEN "createPlaceholder"
                         ELSE IF up = NULL THEN "findLastNonUser"
                         ELSE IF b.isEditedPrompt THEN "editStop"
                         ELSE "createUser"]]
             /\ UNCHANGED <<events, stream>>
  /\ UNCHANGED <<hasApiKey, title, msgs, nextId, controllers, abortCause, reqLimit, fragLimit, otherVars>>

\* route.ts 64-106: parse the body, check the credential, look the conversation up
FindConversation(r) ==
  /\ req[r].pc = "findConv"
  /\ LET b == req[r]
         pu == ResolvedParentUserMessageId(b)
         up == ResolvedUserMessageParentId(b)
     IN IF ~hasApiKey \/ b.conversationId \notin ExistingConvs
        THEN /\ req' = [req EXCEPT ![r] = [@ EXCEPT !.pc = "rejected"]]
             /\ events' = [events EXCEPT ![r] = <<sseChunk("error",
                    IF ~hasApiKey THEN "OpenAI API key not configured"
                                  ELSE "Conversation not found")>>]
             /\ stream' = [stream EXCEPT ![r] = "closed"]
        ELSE /\ req' = [req EXCEPT ![r] = [@ EXCEPT
                  !.parentUserMessageId = pu,
                  !.userMessageParentId = up,
                  !.convTitleDefault = (title = "New Chat"),
                  !.userMessageId = IF b.isRegeneration THEN pu ELSE NULL,
                  !.parentIdForUser = up,
                  !.pc = IF b.isRegeneration THEN "createPlaceholder"
                         ELSE IF up = NULL THEN "findLastNonUser"
                         ELSE IF b.isEditedPrompt THEN "editStop"
                         ELSE "createUser"]]
             /\ UNCHANGED <<events, stream>>
  /\ UNCHANGED <<hasApiKey, title, msgs, nextId, controllers, abortCause, reqLimit, fragLimit, otherVars>>

\* route.ts 112-118
FindLastNonUser(r) ==
  /\ req[r].pc = "findLastNonUser"
  /\ req' = [req EXCEPT ![r] = [@ EXCEPT !.parentIdForUser = LastNonUser,
                                         !.pc = "createUser"]]
  /\ UNCHANGED <<hasApiKey, title, msgs, nextId, controllers, abortCause, events, stream, reqLimit, fragLimit, otherVars>>

\* Requests of conversation c whose stream has emitted start and no terminal frame
StartedNotEnded(c) ==
  {q \in Reqs : /\ req[q].conversationId = c
                /\ events[q] # <<>>
                /\ events[q][1].event = "start"
                /\ \A i \in DOMAIN events[q] : ~IsTerminal(events[q][i])}

\* StreamRegistry.stop (part_002 14-20), called by `who`; the cause recorded
\* is "stale" when the handle's stream has already emitted its terminal frame
RegistryStop(c, who) ==
  LET h == controllers[c]
  IN IF h # NULL
     THEN /\ abortCause' = [abortCause EXCEPT ![h] =
                              IF @ # "none" THEN @
                              ELSE IF h \in StartedNotEnded(c) THEN who ELSE "stale"]
          /\ controllers' = [controllers EXCEPT ![c] = NULL]
     ELSE UNCHANGED <<abortCause, controllers>>

\* route.ts 121-122
EditStop(r) ==
  /\ req[r].pc = "editStop"
  /\ RegistryStop(req[r].conversationId, "edit")
  /\ req' = [req EXCEPT ![r] = [@ EXCEPT !.pc = "editMark"]]
  /\ UNCHANGED <<hasApiKey, title, msgs, nextId, events, stream, reqLimit, fragLimit, otherVars>>

\* The edit branch without its updateMany: no row is marked
EditMarkNothing(r) ==
  /\ req[r].pc = "editMark"
  /\ req' = [req EXCEPT ![r] = [@ EXCEPT !.pc = "createUser"]]
  /\ UNCHANGED <<hasApiKey, title, msgs, nextId, controllers, abortCause, events, stream, reqLimit, fragLimit, otherVars>>

\* route.ts 123-126: updateMany
EditMarkInterrupted(r) ==
  /\ req[r].pc = "editMark"
  /\ msgs' = [i \in DOMAIN msgs |->
                IF msgs[i].parentId = req[r].userMessageParentId /\ msgs[i].status = "STREAMING"
                THEN [msgs[i] EXCEPT !.status = "INTERRUPTED",
                                     !.finishReason = "user_edited_prompt"]
                ELSE msgs[i]]
  /\ req' = [req EXCEPT ![r] = [@ EXCEPT !.pc = "createUser"]]
  /\ UNCHANGED <<hasApiKey, title, nextId, controllers, abortCause, events, stream, reqLimit, fragLimit, otherVars>>

\* The same row with the edit-chain parent dropped: the new version becomes a
\* conversation root (what a create that ignored parentIdForUser would store)
UserRowAsRoot(rq, id) ==
  Row(id, "USER", IF rq.hasText THEN <<"u">> ELSE <<>>, "COMPLETE", NULL, 0)

\* route.ts 130-137: the data of the USER row
UserRow(rq, id) ==
  Row(id, "USER", IF rq.hasText THEN <<"u">> ELSE <<>>, "COMPLETE", rq.parentIdForUser, 0)

\* route.ts 106, 129-138
CreateUserMessage(r) ==
  /\ req[r].pc = "createUser"
  /\ msgs' = Append(msgs, UserRow(req[r], nextId))
  /\ nextId' = nextId + 1
  /\ req' = [req EXCEPT ![r] = [@ EXCEPT
               !.userMessageId = nextId,
               !.pc = IF req[r].convTitleDefault /\ req[r].hasText
                      THEN "updateTitle" ELSE "createPlaceholder"]]
  /\ UNCHANGED <<hasApiKey, title, controllers, abortCause, events, stream, reqLimit, fragLimit, otherVars>>

\* route.ts 142-144
UpdateTitle(r) ==
  /\ req[r].pc = "updateTitle"
  /\ title' = "user"
  /\ req' = [req EXCEPT ![r] = [@ EXCEPT !.pc = "createPlaceholder"]]
  /\ UNCHANGED <<hasApiKey, msgs, nextId, controllers, abortCause, events, stream, reqLimit, fragLimit, otherVars>>

\* A placeholder created with the column default of variantIndex instead of
\* the index the request carried
CreatePlaceholderDefaultVariant(r) ==
  /\ req[r].pc = "createPlaceholder"
  /\ msgs' = Append(msgs, Row(nextId, "ASSISTANT", <<>>, "STREAMING",
                              req[r].userMessageId, 0))
  /\ nextId' = nextId + 1
  /\ req' = [req EXCEPT ![r] = [@ EXCEPT !.assistantMessageId = nextId, !.pc = "openStream"]]
  /\ UNCHANGED <<hasApiKey, title, controllers, abortCause, events, stream, reqLimit, fragLimit, otherVars>>

\* route.ts 172-186
CreatePlaceholder(r) ==
  /\ req[r].pc = "createPlaceholder"
  /\ msgs' = Append(msgs, Row(nextId, "ASSISTANT", <<>>, "STREAMING",
                              req[r].userMessageId, req[r].variantIndex))
  /\ nextId' = nextId + 1
  /\ req' = [req EXCEPT ![r] = [@ EXCEPT !.assistantMessageId = nextId, !.pc = "openStream"]]
  /\ UNCHANGED <<hasApiKey, title, controllers, abortCause, events, stream, reqLimit, fragLimit, otherVars>>

\* A stream whose start callback opens the upstream call without having
\* enqueued the start frame
OpenStreamNoStartFrame(r) ==
  /\ req[r].pc = "openStream"
  /\ controllers' = RegistrySet(controllers, req[r].conversationId, r)
  /\ stream' = [stream EXCEPT ![r] = "open"]
  /\ req' = [req EXCEPT ![r] = [@ EXCEPT !.pc = "streaming"]]
  /\ UNCHANGED <<hasApiKey, title, msgs, nextId, abortCause, events, reqLimit, fragLimit, otherVars>>

\* route.ts 188-210: new AbortController, registry.set, the start frame, the upstream call
OpenStream(r) ==
  /\ req[r].pc = "openStream"
  /\ controllers' = RegistrySet(controllers, req[r].conversationId, r)
  /\ stream' = [stream EXCEPT ![r] = "open"]
  /\ events' = [events EXCEPT ![r] = <<[event |-> "start", data |-> "",
                                        messageId |-> req[r].assistantMessageId,
                                        parentId |-> req[r].userMessageId]>>]
  /\ req' = [req EXCEPT ![r] = [@ EXCEPT !.pc = "streaming"]]
  /\ UNCHANGED <<hasApiKey, title, msgs, nextId, abortCause, reqLimit, fragLimit, otherVars>>

----------------------------------------------------------------------------
(* The stream task (route.ts 191-385).  controllerStream.enqueue throws a   *)
(* TypeError once the consumer has cancelled the stream; the upstream call  *)
(* and its iterator throw AbortError once the handle's signal is aborted.   *)

\* An update that leaves the status column out of its data
UpdateRowKeepStatus(id, content, status, completionTokens, finishReason) ==
  [i \in DOMAIN msgs |->
     IF msgs[i].messageId = id
     THEN [msgs[i] EXCEPT !.content = content,
                          !.completionTokens = completionTokens,
                          !.finishReason = finishReason]
     ELSE msgs[i]]

\* An update that leaves the content column out of its data
UpdateRowKeepContent(id, content, status, completionTokens, finishReason) ==
  [i \in DOMAIN msgs |->
     IF msgs[i].messageId = id
     THEN [msgs[i] EXCEPT !.status = status,
                          !.completionTokens = completionTokens,
                          !.finishReason = finishReason]
     ELSE msgs[i]]

\* prisma.message.update({ where: { messageId }, data })
UpdateRow(id, content, status, completionTokens, finishReason) ==
  [i \in DOMAIN msgs |->
     IF msgs[i].messageId = id
     THEN [msgs[i] EXCEPT !.content = content, !.status = status,
                          !.completionTokens = completionTokens,
                          !.finishReason = finishReason]
     ELSE msgs[i]]

\* route.ts 234-237 and the exit of the for-await loop
AfterDelta(r, rq, evs, fin) ==
  IF ~fin
  THEN /\ req' = [req EXCEPT ![r] = [rq EXCEPT !.pc = "streaming", !.pendingFinish = FALSE]]
       /\ events' = [events EXCEPT ![r] = evs]
  ELSE IF CanEnqueue(r)
  THEN /\ req' = [req EXCEPT ![r] = [rq EXCEPT !.pc = "persistComplete", !.pendingFinish = FALSE]]
       /\ events' = [events EXCEPT ![r] = Append(evs, sseChunk("finish", "stop"))]
  ELSE /\ req' = [req EXCEPT ![r] = [rq EXCEPT !.pc = "persistError", !.pendingFinish = FALSE]]
       /\ events' = [events EXCEPT ![r] = evs]

\* route.ts 214-238: one chunk of the upstream stream; fin marks the chunk
\* that carries finish_reason, which is the last one
StreamChunk(r) ==
  /\ req[r].pc = "streaming"
  /\ ~Aborted(r)
  /\ \E hasDelta \in BOOLEAN, fin \in BOOLEAN :
       /\ hasDelta \/ fin
       /\ hasDelta => req[r].completionTokens < fragLimit
       /\ IF ~hasDelta
          THEN AfterDelta(r, req[r], events[r], fin)
          ELSE LET n == req[r].completionTokens + 1
                   delta == Fragment(n)
                   rq == [req[r] EXCEPT !.accumulated = Append(@, delta),
                                        !.completionTokens = n]
               IN IF ~CanEnqueue(r)
                  THEN /\ req' = [req EXCEPT ![r] = [rq EXCEPT !.pc = "persistError"]]
                       /\ UNCHANGED events
                  ELSE IF n % SAVE_EVERY_N_TOKENS = 0
                  THEN /\ req' = [req EXCEPT ![r] = [rq EXCEPT !.pc = "checkpoint",
                                                               !.pendingFinish = fin]]
                       /\ events' = [events EXCEPT ![r] = Append(@, sseChunk("token", delta))]
                  ELSE AfterDelta(r, rq, Append(events[r], sseChunk("token", delta)), fin)
  /\ UNCHANGED <<hasApiKey, title, msgs, nextId, controllers, abortCause, stream, reqLimit, fragLimit, otherVars>>

\* the throttled save with its failure escalated to the outer catch
CheckpointFailureAborts(r) ==
  /\ req[r].pc = "checkpoint"
  /\ \E ok \in BOOLEAN :
       /\ msgs' = IF ok /\ RowExists(req[r].assistantMessageId)
                  THEN LET row == RowOf(req[r].assistantMessageId)
                       IN UpdateRow(row.messageId, req[r].accumulated, row.status,
                                    req[r].completionTokens, row.finishReason)
                  ELSE msgs
       /\ IF ok
          THEN AfterDelta(r, req[r], events[r], req[r].pendingFinish)
          ELSE /\ req' = [req EXCEPT ![r].pc = "persistError", ![r].pendingFinish = FALSE]
               /\ UNCHANGED events
  /\ UNCHANGED <<hasApiKey, title, nextId, controllers, abortCause, stream, reqLimit, fragLimit, otherVars>>

\* route.ts 222-232: the throttled save; its failure is logged and ignored
Checkpoint(r) ==
  /\ req[r].pc = "checkpoint"
  /\ \E ok \in BOOLEAN :
       msgs' = IF ok /\ RowExists(req[r].assistantMessageId)
               THEN LET row == RowOf(req[r].assistantMessageId)
                    IN UpdateRow(row.messageId, req[r].accumulated, row.status,
                                 req[r].completionTokens, row.finishReason)
               ELSE msgs
  /\ AfterDelta(r, req[r], events[r], req[r].pendingFinish)
  /\ UNCHANGED <<hasApiKey, title, nextId, controllers, abortCause, stream, reqLimit, fragLimit, otherVars>>

\* route.ts 240-243
PersistComplete(r) ==
  /\ req[r].pc = "persistComplete"
  /\ \E ok \in BOOLEAN :
       IF ok /\ RowExists(req[r].assistantMessageId)
       THEN /\ msgs' = UpdateRow(req[r].assistantMessageId, req[r].accumulated, "COMPLETE",
                                 req[r].completionTokens,
                                 RowOf(req[r].assistantMessageId).finishReason)
            /\ req' = [req EXCEPT ![r] = [@ EXCEPT !.pc =
                  IF req[r].convTitleDefault /\ ~req[r].isRegeneration /\ req[r].hasText
                  THEN "title" ELSE "pipeline"]]
       ELSE /\ req' = [req EXCEPT ![r] = [@ EXCEPT !.pc = "persistError"]]
            /\ UNCHANGED msgs
  /\ UNCHANGED <<hasApiKey, title, nextId, controllers, abortCause, events, stream, reqLimit, fragLimit, otherVars>>

\* A title stage without the try/catch of route.ts 246-276: its failure
\* reaches the handler of the generation
GenerateTitleEscalates(r) ==
  /\ req[r].pc = "title"
  /\ \E ok \in BOOLEAN :
       /\ title' = IF ok THEN "generated" ELSE title
       /\ events' = [events EXCEPT ![r] =
                       IF ok /\ CanEnqueue(r) THEN Append(@, sseChunk("title", "generated")) ELSE @]
       /\ req' = [req EXCEPT ![r] = [@ EXCEPT !.pc = IF ok THEN "pipeline" ELSE "persistError"]]
  /\ UNCHANGED <<hasApiKey, msgs, nextId, controllers, abortCause, stream, reqLimit, fragLimit, otherVars>>

\* route.ts 245-277: best effort; the call is made without the abort signal
GenerateTitle(r) ==
  /\ req[r].pc = "title"
  /\ \E ok \in BOOLEAN :
       /\ title' = IF ok THEN "generated" ELSE title
       /\ events' = [events EXCEPT ![r] =
                       IF ok /\ CanEnqueue(r) THEN Append(@, sseChunk("title", "generated")) ELSE @]
  /\ req' = [req EXCEPT ![r] = [@ EXCEPT !.pc = "pipeline"]]
  /\ UNCHANGED <<hasApiKey, msgs, nextId, controllers, abortCause, stream, reqLimit, fragLimit, otherVars>>

\* A pipeline whose failure handler reports the failure with an error frame
PipelineFramesErrorFrame(outcome) ==
  LET s1 == <<sseChunk("status", "1:start")>>
      d1 == <<sseChunk("structured_data", "json"), sseChunk("status", "1:complete"),
              sseChunk("status", "2:start")>>
      d2 == <<sseChunk("viz_config", "json"), sseChunk("status", "2:complete")>>
      er == <<sseChunk("error", "pipeline")>>
  IN CASE outcome = "ok" -> s1 \o d1 \o d2
       [] outcome = "fail1" -> s1 \o er
       [] outcome = "fail2" -> s1 \o d1 \o er

\* route.ts 281, 310, 315, 318, 347-348, 351: the frames of the two stages
PipelineFrames(outcome) ==
  LET s1 == <<sseChunk("status", "1:start")>>
      d1 == <<sseChunk("structured_data", "json"), sseChunk("status", "1:complete"),
              sseChunk("status", "2:start")>>
      d2 == <<sseChunk("viz_config", "json"), sseChunk("status", "2:complete")>>
      er == <<sseChunk("status", "pipeline:error")>>
  IN CASE outcome = "ok" -> s1 \o d1 \o d2
       [] outcome = "fail1" -> s1 \o er
       [] outcome = "fail2" -> s1 \o d1 \o er

\* route.ts 279-356: the two visualization stages (calls made without the
\* abort signal, failures caught), then registry.clear, the end frame, close
VisualizationPipeline(r) ==
  /\ req[r].pc = "pipeline"
  /\ IF CanEnqueue(r)
     THEN /\ \E outcome \in {"ok", "fail1", "fail2"} :
               events' = [events EXCEPT ![r] =
                   @ \o PipelineFrames(outcome) \o <<sseChunk("end", "complete")>>]
          /\ controllers' = RegistryClear(controllers, req[r].conversationId)
          /\ stream' = [stream EXCEPT ![r] = "closed"]
          /\ req' = [req EXCEPT ![r] = [@ EXCEPT !.pc = "done"]]
     ELSE \* enqueue throws at 281, again in the handler at 351: outer catch
          /\ req' = [req EXCEPT ![r] = [@ EXCEPT !.pc = "persistError"]]
          /\ UNCHANGED <<events, controllers, stream>>
  /\ UNCHANGED <<hasApiKey, title, msgs, nextId, abortCause, reqLimit, fragLimit, otherVars>>

\* route.ts 205-214, 357-372: the upstream call or its iterator throws
\* AbortError; the handler saves what was accumulated and ends the stream
PersistInterrupted(r) ==
  /\ req[r].pc = "streaming"
  /\ Aborted(r)
  /\ \E ok \in BOOLEAN :
       IF ok /\ RowExists(req[r].assistantMessageId)
       THEN /\ msgs' = UpdateRow(req[r].assistantMessageId, req[r].accumulated, "INTERRUPTED",
                                 req[r].completionTokens, "user_cancelled")
            /\ req' = [req EXCEPT ![r] = [@ EXCEPT !.pc = "done"]]
       ELSE /\ req' = [req EXCEPT ![r] = [@ EXCEPT !.pc = "done", !.finalWriteFailed = TRUE]]
            /\ UNCHANGED msgs
  /\ IF CanEnqueue(r)
     THEN /\ events' = [events EXCEPT ![r] = Append(@, sseChunk("end", "interrupted"))]
          /\ stream' = [stream EXCEPT ![r] = "closed"]
     ELSE UNCHANGED <<events, stream>>
  /\ UNCHANGED <<hasApiKey, title, nextId, controllers, abortCause, reqLimit, fragLimit, otherVars>>

\* An error handler that saves the terminal status without the accumulated
\* content
PersistErrorDiscards(r) ==
  /\ \/ req[r].pc = "persistError"
     \/ req[r].pc = "streaming" /\ ~Aborted(r)
  /\ \E ok \in BOOLEAN :
       IF ok /\ RowExists(req[r].assistantMessageId)
       THEN /\ msgs' = UpdateRow(req[r].assistantMessageId, <<>>, "ERROR", 0, "error")
            /\ req' = [req EXCEPT ![r] = [@ EXCEPT !.pc = "done"]]
       ELSE /\ req' = [req EXCEPT ![r] = [@ EXCEPT !.pc = "done", !.finalWriteFailed = TRUE]]
            /\ UNCHANGED msgs
  /\ IF CanEnqueue(r)
     THEN /\ events' = [events EXCEPT ![r] = Append(@, sseChunk("error", "error"))]
          /\ stream' = [stream EXCEPT ![r] = "closed"]
     ELSE UNCHANGED <<events, stream>>
  /\ UNCHANGED <<hasApiKey, title, nextId, controllers, abortCause, reqLimit, fragLimit, otherVars>>

\* route.ts 357-360, 374-379: any other error, thrown by the upstream call or
\* its iterator (pc streaming), by enqueue or by the final save (pc persistError)
PersistError(r) ==
  /\ \/ req[r].pc = "persistError"
     \/ req[r].pc = "streaming" /\ ~Aborted(r)
  /\ \E ok \in BOOLEAN :
       IF ok /\ RowExists(req[r].assistantMessageId)
       THEN /\ msgs' = UpdateRow(req[r].assistantMessageId, req[r].accumulated, "ERROR",
                                 req[r].completionTokens, "error")
            /\ req' = [req EXCEPT ![r] = [@ EXCEPT !.pc = "done"]]
       ELSE /\ req' = [req EXCEPT ![r] = [@ EXCEPT !.pc = "done", !.finalWriteFailed = TRUE]]
            /\ UNCHANGED msgs
  /\ IF CanEnqueue(r)
     THEN /\ events' = [events EXCEPT ![r] = Append(@, sseChunk("error", "error"))]
          /\ stream' = [stream EXCEPT ![r] = "closed"]
     ELSE UNCHANGED <<events, stream>>
  /\ UNCHANGED <<hasApiKey, title, nextId, controllers, abortCause, reqLimit, fragLimit, otherVars>>

\* route.ts 382-384: the consumer cancels the response stream (client gone)
StreamCancel(r) ==
  /\ stream[r] = "open"
  /\ stream' = [stream EXCEPT ![r] = "cancelled"]
  /\ controllers' = RegistryClear(controllers, req[r].conversationId)
  /\ UNCHANGED <<hasApiKey, title, msgs, nextId, abortCause, req, events, reqLimit, fragLimit, otherVars>>

\* POST (stop): messages/[messageId]/route.ts 17-22
StopRequest(c) ==
  /\ RegistryStop(c, "user")
  /\ UNCHANGED <<hasApiKey, title, msgs, nextId, req, events, stream, reqLimit, fragLimit, otherVars>>

Next ==
  \/ \E r \in Reqs : handleSendMessage(r)
  \/ \E r \in Reqs : handleEditUserMessage(r)
  \/ \E r \in Reqs : handleRegenerateAssistant(r)
  \/ \E r \in Reqs : FindConversation(r)
  \/ \E r \in Reqs : FindLastNonUser(r)
  \/ \E r \in Reqs : EditStop(r)
  \/ \E r \in Reqs : EditMarkInterrupted(r)
  \/ \E r \in Reqs : CreateUserMessage(r)
  \/ \E r \in Reqs : UpdateTitle(r)
  \/ \E r \in Reqs : CreatePlaceholder(r)
  \/ \E r \in Reqs : OpenStream(r)
  \/ \E r \in Reqs : StreamChunk(r)
  \/ \E r \in Reqs : Checkpoint(r)
  \/ \E r \in Reqs : PersistComplete(r)
  \/ \E r \in Reqs : GenerateTitle(r)
  \/ \E r \in Reqs : VisualizationPipeline(r)
  \/ \E r \in Reqs : PersistInterrupted(r)
  \/ \E r \in Reqs : PersistError(r)
  \/ \E r \in Reqs : StreamCancel(r)
  \/ \E c \in ConvIds : StopRequest(c)

Spec == Init /\ [][Next]_vars

----------------------------------------------------------------------------
(* The HTTP API used directly, on a conversation that already holds one     *)
(* completed turn: requests of older clients, which carry the deprecated    *)
(* parentId field, and the deletion of single messages.  The requests are   *)
(* issued one after the other, by clients that stay connected and send no   *)
(* stop request.                                                            *)

HistoryUser == Row(2, "USER", <<"u">>, "COMPLETE", 1, 0)

HistoryAssistant == [Row(3, "ASSISTANT", <<"a">>, "COMPLETE", 2, 0) EXCEPT !.completionTokens = 1]

\* the messages a delete request names: those of the first turn
HistoryIds == {SystemRoot.messageId, HistoryUser.messageId, HistoryAssistant.messageId}

\* a conversation created with a root SYSTEM message (conversations/route.ts
\* 14-35) after one completed turn: the title was set from the first message
InitHistory ==
  /\ hasApiKey = TRUE
  /\ title = "user"
  /\ msgs = <<SystemRoot, HistoryUser, HistoryAssistant>>
  /\ nextId = 4
  /\ controllers = [c \in ConvIds |-> NULL]
  /\ abortCause = [r \in Reqs |-> "none"]
  /\ req = [r \in Reqs |-> InitialRequest]
  /\ events = [r \in Reqs |-> <<>>]
  /\ stream = [r \in Reqs |-> "none"]
  /\ reqLimit = MaxGen
  /\ fragLimit = MaxShortTokens
  /\ OthersIdle

\* route.ts 66-83: a body that carries the deprecated parentId field and
\* neither parentUserMessageId nor userMessageParentId
LegacyRequest(r) ==
  /\ NextNew(r)
  /\ \E regen \in BOOLEAN :
     \E p \in {NULL} \cup {msgs[i].messageId : i \in DOMAIN msgs} :
       req' = [req EXCEPT ![r] = [@ EXCEPT !.pc = "findConv", !.conversationId = "c1",
                                            !.hasText = TRUE,
                                            !.parentId = p,
                                            !.isRegeneration = regen]]
  /\ UNCHANGED <<hasApiKey, title, msgs, nextId, controllers, abortCause, events, stream, reqLimit, fragLimit, otherVars>>

\* DELETE /api/messages/[messageId]: messages/[messageId]/route.ts 4-10
DeleteMessage(id) ==
  /\ RowExists(id)
  /\ LET keep(m) == m.messageId # id
     IN msgs' = SelectSeq(msgs, keep)
  /\ UNCHANGED <<hasApiKey, title, nextId, controllers, abortCause, req, events, stream, reqLimit, fragLimit, otherVars>>

\* no generate request is in progress: the requests are issued one at a time
Idle == \A q \in Reqs : req[q].pc \in {"new", "done", "rejected"}

NextApi ==
  \/ \E r \in Reqs : Idle /\ handleSendMessage(r)
  \/ \E r \in Reqs : Idle /\ handleEditUserMessage(r)
  \/ \E r \in Reqs : Idle /\ handleRegenerateAssistant(r)
  \/ \E r \in Reqs : Idle /\ LegacyRequest(r)
  \/ \E r \in Reqs : FindConversation(r)
  \/ \E r \in Reqs : FindLastNonUser(r)
  \/ \E r \in Reqs : EditStop(r)
  \/ \E r \in Reqs : EditMarkInterrupted(r)
  \/ \E r \in Reqs : CreateUserMessage(r)
  \/ \E r \in Reqs : CreatePlaceholder(r)
  \/ \E r \in Reqs : OpenStream(r)
  \/ \E r \in Reqs : StreamChunk(r)
  \/ \E r \in Reqs : PersistComplete(r)
  \/ \E r \in Reqs : VisualizationPipeline(r)
  \/ \E r \in Reqs : PersistError(r)
  \/ \E id \in HistoryIds : Idle /\ DeleteMessage(id)

SpecApi == InitHistory /\ [][NextApi]_vars

----------------------------------------------------------------------------
(* One generation of a new message on its own: the streaming loop with its   *)
(* throttled saves (route.ts 212-243), its completion, its stop and the      *)
(* client's disconnect.  The upstream stream has up to MaxTokens fragments,  *)
(* so the loop goes on after the save at SAVE_EVERY_N_TOKENS.                *)

InitSingle ==
  /\ Init
  /\ reqLimit = 1
  /\ fragLimit = MaxTokens

NextSingle ==
  \/ \E r \in Reqs : handleSendMessage(r)
  \/ \E r \in Reqs : FindConversation(r)
  \/ \E r \in Reqs : FindLastNonUser(r)
  \/ \E r \in Reqs : CreateUserMessage(r)
  \/ \E r \in Reqs : UpdateTitle(r)
  \/ \E r \in Reqs : CreatePlaceholder(r)
  \/ \E r \in Reqs : OpenStream(r)
  \/ \E r \in Reqs : StreamChunk(r)
  \/ \E r \in Reqs : Checkpoint(r)
  \/ \E r \in Reqs : PersistComplete(r)
  \/ \E r \in Reqs : GenerateTitle(r)
  \/ \E r \in Reqs : VisualizationPipeline(r)
  \/ \E r \in Reqs : PersistInterrupted(r)
  \/ \E r \in Reqs : PersistError(r)
  \/ \E r \in Reqs : StreamCancel(r)
  \/ \E c \in ConvIds : StopRequest(c)

SpecSingle == InitSingle /\ [][NextSingle]_vars

----------------------------------------------------------------------------
(* The token budgeter (src/unnamed/part_001).  A string is the sequence of  *)
(* its characters; the budgeter only looks at the length of a message's     *)
(* JSON serialization, so countTokensForModel takes that length.  The       *)
(* headroom ratio is a fraction <<numerator, denominator>>; context sizes   *)
(* are scaled down to tens of tokens.                                        *)

MaxHistory == 3
MaxContextTens == 5

Contents == {<<>>, <<"a", "\"", "a", "\"", "a">>}

ChatMessage(role, content) == [role |-> role, content |-> content]

HistoryMessages == {ChatMessage(role, c) : role \in {"system", "user", "assistant"}, c \in Contents}

Histories == UNION {[1..n -> HistoryMessages] : n \in 0..MaxHistory}

ContextSizes == {10 * k : k \in 0..MaxContextTens}

Ratios == {<<0, 1>>, <<1, 10>>, <<1, 2>>}

RoleLength(role) ==
  CASE role = "system" -> 6
    [] role = "user" -> 4
    [] role = "assistant" -> 9

\* length of the JSON string literal's inside: a double quote is written \"
RECURSIVE EscapedLength(_)
EscapedLength(content) ==
  IF content = <<>> THEN 0
  ELSE (IF Head(content) = "\"" THEN 2 ELSE 1) + EscapedLength(Tail(content))

\* JSON.stringify(msg).length for {"role":"...","content":"..."}
StringifiedLength(msg) == 24 + RoleLength(msg.role) + EscapedLength(msg.content)

\* Math.ceil(text.length / 4)
countTokensForModel(textLength) == (textLength + 3) \div 4

pushAndMeasure(msg) == countTokensForModel(StringifiedLength(msg))

\* Math.floor(maxContextTokens * outputHeadroomRatio)
Headroom(maxContextTokens, outputHeadroomRatio) ==
  (maxContextTokens * outputHeadroomRatio[1]) \div outputHeadroomRatio[2]

\* a budget that reserves nothing for the completion
TargetIgnoresHeadroom(maxContextTokens, headroom) == maxContextTokens

Target(maxContextTokens, headroom) == maxContextTokens - headroom

RECURSIVE SlidingWindowSkips(_, _, _, _, _)
RECURSIVE SlidingWindow(_, _, _, _, _)

\* the loop with continue in the place of break
SlidingWindowSkips(history, i, messages, tokenSum, target) ==
  IF i = 0 THEN [messages |-> messages, tokenSum |-> tokenSum]
  ELSE LET msg == history[i]
           t == pushAndMeasure(msg)
       IN IF tokenSum + t > target
          THEN SlidingWindowSkips(history, i - 1, messages, tokenSum, target)
          ELSE SlidingWindowSkips(history, i - 1, <<msg>> \o messages, tokenSum + t, target)

\* part_001 33-39: the loop from index i (1-based) down; unshift puts msg at
\* the front of messages
SlidingWindow(history, i, messages, tokenSum, target) ==
  IF i = 0 THEN [messages |-> messages, tokenSum |-> tokenSum]
  ELSE LET msg == history[i]
           t == pushAndMeasure(msg)
       IN IF tokenSum + t > target
          THEN [messages |-> messages, tokenSum |-> tokenSum]
          ELSE SlidingWindow(history, i - 1, <<msg>> \o messages, tokenSum + t, target)

buildPrompt(systemPrompt, history, maxContextTokens, outputHeadroomRatio) ==
  LET headroom == Headroom(maxContextTokens, outputHeadroomRatio)
      target == Target(maxContextTokens, headroom)
      systemMsg == ChatMessage("system", systemPrompt)
      w == SlidingWindow(history, Len(history), <<systemMsg>>, pushAndMeasure(systemMsg), target)
  IN [messages |-> w.messages, promptTokens |-> w.tokenSum, maxCompletionTokens |-> headroom]

\* the server takes no request
ServerIdle ==
  /\ hasApiKey = TRUE
  /\ title = "New Chat"
  /\ msgs = <<SystemRoot>>
  /\ nextId = 2
  /\ controllers = [c \in ConvIds |-> NULL]
  /\ abortCause = [r \in Reqs |-> "none"]
  /\ req = [r \in Reqs |-> InitialRequest]
  /\ events = [r \in Reqs |-> <<>>]
  /\ stream = [r \in Reqs |-> "none"]
  /\ reqLimit = 0
  /\ fragLimit = 0

InitPrompt ==
  /\ ServerIdle
  /\ \E sp \in Contents, h \in Histories, m \in ContextSizes, ratio \in Ratios :
       prompt = [pc |-> "args", systemPrompt |-> sp, history |-> h,
                 maxContextTokens |-> m, outputHeadroomRatio |-> ratio]
  /\ sse = NoSse
  /\ store = EmptyStore
  /\ reader = [r \in Reqs |-> NoReader]
  /\ calls = NoCalls
  /\ turnView = NoTurnView

CallBuildPrompt ==
  /\ prompt.pc = "args"
  /\ prompt' = [pc |-> "returned", systemPrompt |-> prompt.systemPrompt,
                history |-> prompt.history,
                maxContextTokens |-> prompt.maxContextTokens,
                outputHeadroomRatio |-> prompt.outputHeadroomRatio,
                result |-> buildPrompt(prompt.systemPrompt, prompt.history,
                                       prompt.maxContextTokens, prompt.outputHeadroomRatio)]
  /\ UNCHANGED <<serverVars, sse, store, reader, calls, turnView>>

NextPrompt == CallBuildPrompt

SpecPrompt == InitPrompt /\ [][NextPrompt]_vars

----------------------------------------------------------------------------
(* The client's frame parser (chat-store.ts 136-153) on the bytes that the  *)
(* server's sseChunk and TextEncoder produce (route.ts 25-27).  A text is    *)
(* the sequence of its characters, a body the sequence of its bytes; "E9"   *)
(* is the character U+00E9, whose UTF-8 encoding is the bytes "C3" "A9",    *)
(* and "FFFD" is the replacement character.  A payload is an object with    *)
(* one string-valued key.                                                    *)

MaxFrames == 2

Payload(key, value) == [key |-> key, value |-> value]

\* {}
EmptyObject == Payload(<<>>, <<>>)

TokenKey == <<"t", "o", "k", "e", "n">>

Frames ==
  {[event |-> <<"t", "o", "k", "e", "n">>, data |-> Payload(TokenKey, <<"a">>)],
   [event |-> <<"t", "o", "k", "e", "n">>, data |-> Payload(TokenKey, <<"E9", "\n">>)],
   [event |-> <<"e", "n", "d">>, data |-> Payload(<<"s", "t", "a", "t", "u", "s">>, <<"c", "o", "m", "p", "l", "e", "t", "e">>)]}

FrameSequences == UNION {[1..n -> Frames] : n \in 0..MaxFrames}

\* the inside of a JSON string literal
RECURSIVE JSONescape(_)
JSONescape(text) ==
  IF text = <<>> THEN <<>>
  ELSE (CASE Head(text) = "\n" -> <<"\\", "n">>
          [] Head(text) = "\"" -> <<"\\", "\"">>
          [] Head(text) = "\\" -> <<"\\", "\\">>
          [] OTHER -> <<Head(text)>>) \o JSONescape(Tail(text))

JSONstringify(data) ==
  <<"{", "\"">> \o data.key \o <<"\"", ":", "\"">> \o JSONescape(data.value) \o <<"\"", "}">>

\* JSON.parse on the texts that JSON.stringify produces for the payloads;
\* any other text is a SyntaxError
JSONparse(text) ==
  LET known == {f.data : f \in Frames}
  IN IF \E d \in known : JSONstringify(d) = text
     THEN [thrown |-> FALSE, value |-> CHOOSE d \in known : JSONstringify(d) = text]
     ELSE [thrown |-> TRUE, value |-> EmptyObject]

\* route.ts 25-27
sseChunkText(event, data) ==
  <<"e", "v", "e", "n", "t", ":", " ">> \o event \o <<"\n", "d", "a", "t", "a", ":", " ">> \o JSONstringify(data) \o <<"\n", "\n">>

\* TextEncoder.encode
RECURSIVE encode(_)
encode(text) ==
  IF text = <<>> THEN <<>>
  ELSE (IF Head(text) = "E9" THEN <<"C3", "A9">> ELSE <<Head(text)>>) \o encode(Tail(text))

RECURSIVE Body(_)
Body(frames) ==
  IF frames = <<>> THEN <<>>
  ELSE encode(sseChunkText(Head(frames).event, Head(frames).data)) \o Body(Tail(frames))

\* the characters of a sequence of bytes that ends with a complete
\* character: "C3" "A9" is U+00E9, a lone "C3" or "A9" is malformed
DecodeComplete(bytes) ==
  LET mark == [i \in DOMAIN bytes |->
                 IF bytes[i] = "C3" /\ i < Len(bytes) /\ bytes[i + 1] = "A9" THEN "E9"
                 ELSE IF bytes[i] = "A9" /\ i > 1 /\ bytes[i - 1] = "C3" THEN "skip"
                 ELSE IF bytes[i] \in {"C3", "A9"} THEN "FFFD"
                 ELSE bytes[i]]
      IsCharacter(c) == c # "skip"
  IN SelectSeq(mark, IsCharacter)

\* TextDecoder.decode(value) without the stream option: an incomplete
\* sequence at the end of value is replaced, nothing is carried over
decodeWithoutStream(pending, value) ==
  [text |-> DecodeComplete(value), pending |-> <<>>]

\* TextDecoder.decode(value, {stream: true}): pending is the lead byte of
\* an incomplete sequence kept from the previous call
decode(pending, value) ==
  LET bytes == pending \o value
      incomplete == bytes # <<>> /\ bytes[Len(bytes)] = "C3"
  IN IF incomplete
     THEN [text |-> DecodeComplete(SubSeq(bytes, 1, Len(bytes) - 1)), pending |-> <<"C3">>]
     ELSE [text |-> DecodeComplete(bytes), pending |-> <<>>]

\* buffer.indexOf("\n\n"), 1-based; 0 stands for -1
indexOfBlankLine(buffer) ==
  LET hits == {i \in 1..(Len(buffer) - 1) : buffer[i] = "\n" /\ buffer[i + 1] = "\n"}
  IN IF hits = {} THEN 0 ELSE CHOOSE i \in hits : \A j \in hits : i <= j

\* raw.split("\n")
RECURSIVE split(_, _)
split(raw, line) ==
  IF raw = <<>> THEN <<line>>
  ELSE IF Head(raw) = "\n" THEN <<line>> \o split(Tail(raw), <<>>)
  ELSE split(Tail(raw), Append(line, Head(raw)))

startsWith(l, prefix) == Len(l) >= Len(prefix) /\ SubSeq(l, 1, Len(prefix)) = prefix

\* lines.find(l => l.startsWith(prefix)); <<>> index 0 stands for undefined
find(lines, prefix) ==
  LET hits == {i \in DOMAIN lines : startsWith(lines[i], prefix)}
  IN IF hits = {} THEN 0 ELSE CHOOSE i \in hits : \A j \in hits : i <= j

slice(l, n) == SubSeq(l, n + 1, Len(l))

\* chat-store.ts 143-153 (and the routing that follows, reduced to the
\* record of the frame): the inner while loop
RECURSIVE DispatchFrames(_, _)
DispatchFrames(buffer, dispatched) ==
  LET idx == indexOfBlankLine(buffer)
  IN IF idx = 0 THEN [buffer |-> buffer, dispatched |-> dispatched, thrown |-> FALSE]
     ELSE LET raw == SubSeq(buffer, 1, idx - 1)
              rest == slice(buffer, idx + 1)
              lines == split(raw, <<>>)
              eventLine == find(lines, <<"e", "v", "e", "n", "t", ":", " ">>)
              dataLine == find(lines, <<"d", "a", "t", "a", ":", " ">>)
              event == IF eventLine # 0 THEN slice(lines[eventLine], 7) ELSE <<"m", "e", "s", "s", "a", "g", "e">>
              parsed == IF dataLine # 0 THEN JSONparse(slice(lines[dataLine], 6))
                        ELSE [thrown |-> FALSE, value |-> EmptyObject]
          IN IF parsed.thrown
             THEN [buffer |-> rest, dispatched |-> dispatched, thrown |-> TRUE]
             ELSE DispatchFrames(rest, Append(dispatched, [event |-> event, data |-> parsed.value]))

InitSse ==
  /\ ServerIdle
  /\ prompt = NoPrompt
  /\ \E frames \in FrameSequences :
       sse = [pc |-> "reading", frames |-> frames, body |-> Body(frames), pos |-> 0,
              pending |-> <<>>, buffer |-> <<>>, dispatched |-> <<>>]
  /\ store = EmptyStore
  /\ reader = [r \in Reqs |-> NoReader]
  /\ calls = NoCalls
  /\ turnView = NoTurnView

\* chat-store.ts 140-153: reader.read() returns the next n bytes of the body
ReadChunk ==
  /\ sse.pc = "reading"
  /\ \E n \in 1..(Len(sse.body) - sse.pos) :
       LET value == SubSeq(sse.body, sse.pos + 1, sse.pos + n)
           decoded == decode(sse.pending, value)
           out == DispatchFrames(sse.buffer \o decoded.text, sse.dispatched)
       IN sse' = [sse EXCEPT !.pc = IF out.thrown THEN "failed" ELSE "reading",
                             !.pos = sse.pos + n,
                             !.pending = decoded.pending,
                             !.buffer = out.buffer,
                             !.dispatched = out.dispatched]
  /\ UNCHANGED <<serverVars, prompt, store, reader, calls, turnView>>

\* chat-store.ts 141-142: the body has ended
ReadDone ==
  /\ sse.pc = "reading"
  /\ sse.pos = Len(sse.body)
  /\ sse' = [sse EXCEPT !.pc = "done"]
  /\ UNCHANGED <<serverVars, prompt, store, reader, calls, turnView>>

NextSse == ReadChunk \/ ReadDone

SpecSse == InitSse /\ [][NextSse]_vars

----------------------------------------------------------------------------
(* The client's store (src/src/lib/chat-store.ts) for conversation c1, run  *)
(* against the server above.  Every openStream call is one request of the   *)
(* server and one run() task of the client; the task reads the frames of    *)
(* its response one at a time (the split of the bytes into chunks does not  *)
(* matter: SpecSse).  A loadConversation call is its GET, served from the   *)
(* table at once, and the handling of the response, which comes later.      *)
(* Aborting a handle makes the pending fetch or read of its task reject:    *)
(* the task handles no frame after the abort.                               *)

MaxLoads == 1

\* the body of the client's requests: a new message
StreamBody ==
  [isRegeneration |-> FALSE, userMessageParentId |-> NULL, parentUserMessageId |-> NULL,
   userMessage |-> <<"u">>]

\* the fields of a message that the client's list is compared on
ClientMessage(row) ==
  [messageId |-> row.messageId, role |-> row.role, content |-> row.content,
   status |-> row.status, parentId |-> row.parentId]

\* conversations/route.ts 109-119: the messages in creation order
GetMessages == [i \in DOMAIN msgs |-> ClientMessage(msgs[i])]

Ids(list) == {list[i].messageId : i \in DOMAIN list}

\* the index written last by msgs.forEach for this id
LastIndexOf(list, id) ==
  CHOOSE i \in DOMAIN list :
    list[i].messageId = id /\ \A j \in DOMAIN list : list[j].messageId = id => j <= i

\* chat-store.ts 93-98
ById(list) == [id \in Ids(list) |-> list[LastIndexOf(list, id)]]

Idx(list) == [id \in Ids(list) |-> LastIndexOf(list, id)]

\* a merge that puts the local content after the server's
MergeLocalAppendsContent(st, data) ==
  LET cur == st.currentAssistantId
  IN IF cur # NULL /\ cur \in DOMAIN st.messagesById
     THEN LET localAssistant == st.messagesById[cur]
              hits == {i \in DOMAIN data : data[i].messageId = cur}
          IN IF hits # {}
             THEN LET serverIndex == CHOOSE i \in hits : \A j \in hits : i <= j
                      serverMsg == data[serverIndex]
                  IN [data EXCEPT ![serverIndex] =
                        [serverMsg EXCEPT !.content = serverMsg.content \o localAssistant.content,
                                          !.status = localAssistant.status]]
             ELSE Append(data, localAssistant)
     ELSE data

\* chat-store.ts 68-92: the list that loadConversation stores
MergeLocal(st, data) ==
  LET cur == st.currentAssistantId
  IN IF cur # NULL /\ cur \in DOMAIN st.messagesById
     THEN LET localAssistant == st.messagesById[cur]
              hits == {i \in DOMAIN data : data[i].messageId = cur}
          IN IF hits # {}
             THEN LET serverIndex == CHOOSE i \in hits : \A j \in hits : i <= j
                      serverMsg == data[serverIndex]
                  IN [data EXCEPT ![serverIndex] =
                        [serverMsg EXCEPT !.content =
                           IF Len(localAssistant.content) > Len(serverMsg.content)
                           THEN localAssistant.content ELSE serverMsg.content,
                                          !.status = localAssistant.status]]
             ELSE Append(data, localAssistant)
     ELSE data

\* chat-store.ts 93-107
ApplyLoad(st, data) ==
  LET list == MergeLocal(st, data)
  IN [st EXCEPT !.messages = list, !.messagesById = ById(list), !.messageIndex = Idx(list)]

\* chat-store.ts 173-181
LastAssistantOrSystem(list) ==
  LET hits == {i \in DOMAIN list : list[i].role \in {"ASSISTANT", "SYSTEM"}}
  IN IF hits = {} THEN NULL
     ELSE list[CHOOSE i \in hits : \A j \in hits : j <= i].messageId

\* chat-store.ts 154-238: the start event
HandleStart(st, data, body) ==
  LET s1 == [st EXCEPT !.currentAssistantId = data.messageId]
      userMsg == [messageId |-> data.parentId, role |-> "USER", content |-> body.userMessage,
                  status |-> "COMPLETE",
                  parentId |-> IF body.userMessageParentId # NULL
                               THEN body.userMessageParentId
                               ELSE LastAssistantOrSystem(s1.messages)]
      s2 == IF ~body.isRegeneration /\ data.parentId # NULL
               /\ data.parentId \notin DOMAIN s1.messagesById
            THEN [s1 EXCEPT !.messages = Append(@, userMsg),
                            !.messagesById = (userMsg.messageId :> userMsg) @@ @,
                            !.messageIndex = (userMsg.messageId :> (Len(s1.messages) + 1)) @@ @]
            ELSE s1
      newMsg == [messageId |-> data.messageId, role |-> "ASSISTANT", content |-> <<>>,
                 status |-> "STREAMING",
                 parentId |-> IF data.parentId # NULL THEN data.parentId
                              ELSE body.parentUserMessageId]
  IN [s2 EXCEPT !.messages = Append(@, newMsg),
                !.messagesById = (newMsg.messageId :> newMsg) @@ @,
                !.messageIndex = (newMsg.messageId :> (Len(s2.messages) + 1)) @@ @]

\* chat-store.ts 240-242, 269-271, 335-337: the handler has a message to update
\* (assistantId set, and an index for it)
HasCurrent(st) ==
  /\ st.currentAssistantId # NULL
  /\ st.currentAssistantId \in DOMAIN st.messageIndex

\* chat-store.ts 245-246, 274-275, 340-341: the message at
\* messageIndex[currentAssistantId]
CurrentTarget(st) == st.messages[st.messageIndex[st.currentAssistantId]]

\* chat-store.ts 243-266, 272-296, 338-365: the updated message is written to
\* the list and to messagesById
UpdateCurrent(st, updatedMessage) ==
  LET assistantId == st.currentAssistantId
      i == st.messageIndex[assistantId]
  IN [st EXCEPT !.messages = [@ EXCEPT ![i] = updatedMessage],
                !.messagesById = (assistantId :> updatedMessage) @@ @]

\* chat-store.ts 239-267: the token event
HandleToken(st, token) ==
  IF ~HasCurrent(st) THEN st
  ELSE UpdateCurrent(st, [CurrentTarget(st) EXCEPT !.content = Append(@, token)])

\* chat-store.ts 268-333: status, structured_data, viz_config write fields
\* that are not modelled
HandlePipelineEvent(st) ==
  IF ~HasCurrent(st) THEN st
  ELSE UpdateCurrent(st, CurrentTarget(st))

\* chat-store.ts 334-368: the end event, up to the call of loadConversation
HandleEnd(st, status) ==
  LET s1 == IF ~HasCurrent(st) THEN st
            ELSE UpdateCurrent(st, [CurrentTarget(st) EXCEPT
                   !.status = IF status = "complete" THEN "COMPLETE" ELSE "INTERRUPTED"])
  IN [s1 EXCEPT !.isStreaming = FALSE]

\* one generation of up to MaxTokens fragments on a fresh conversation
InitClient ==
  /\ hasApiKey = TRUE
  /\ title = "New Chat"
  /\ msgs = <<SystemRoot>>
  /\ nextId = 2
  /\ controllers = [c \in ConvIds |-> NULL]
  /\ abortCause = [r \in Reqs |-> "none"]
  /\ req = [r \in Reqs |-> InitialRequest]
  /\ events = [r \in Reqs |-> <<>>]
  /\ stream = [r \in Reqs |-> "none"]
  /\ reqLimit = 1
  /\ fragLimit = MaxTokens
  /\ prompt = NoPrompt
  /\ sse = NoSse
  /\ store = EmptyStore
  /\ reader = [r \in Reqs |-> NoReader]
  /\ calls = NoCalls
  /\ turnView = NoTurnView

\* openStream without the abort of the previous handle
openStreamKeepsPrevious(r) ==
  /\ NextNew(r)
  /\ reader' = [reader EXCEPT ![r] = [pc |-> "fetching", aborted |-> FALSE, pos |-> 0]]
  /\ store' = [store EXCEPT !.controllers = r, !.isStreaming = TRUE]
  /\ req' = [req EXCEPT ![r] = [@ EXCEPT !.pc = "findConv", !.conversationId = "c1",
                                         !.hasText = TRUE]]
  /\ UNCHANGED <<hasApiKey, title, msgs, nextId, controllers, abortCause, events, stream,
                 reqLimit, fragLimit, prompt, sse, calls, turnView>>

\* chat-store.ts 113-131, 399: the handle of the call is its request number
openStream(r) ==
  /\ NextNew(r)
  /\ LET prevController == store.controllers
     IN reader' = [q \in Reqs |->
                     IF q = r THEN [pc |-> "fetching", aborted |-> FALSE, pos |-> 0]
                     ELSE IF q = prevController THEN [reader[q] EXCEPT !.aborted = TRUE]
                     ELSE reader[q]]
  /\ store' = [store EXCEPT !.controllers = r, !.isStreaming = TRUE]
  /\ req' = [req EXCEPT ![r] = [@ EXCEPT !.pc = "findConv", !.conversationId = "c1",
                                         !.hasText = TRUE]]
  /\ UNCHANGED <<hasApiKey, title, msgs, nextId, controllers, abortCause, events, stream,
                 reqLimit, fragLimit, prompt, sse, calls, turnView>>

\* chat-store.ts 127-137: the response has arrived
FetchResponse(r) ==
  /\ reader[r].pc = "fetching"
  /\ ~reader[r].aborted
  /\ req[r].pc = "rejected" \/ stream[r] # "none"
  /\ IF req[r].pc = "rejected"
     THEN /\ reader' = [reader EXCEPT ![r].pc = "failed"]
          /\ store' = [store EXCEPT !.isStreaming = FALSE]
     ELSE /\ reader' = [reader EXCEPT ![r].pc = "reading"]
          /\ UNCHANGED store
  /\ UNCHANGED <<serverVars, prompt, sse, calls, turnView>>

\* chat-store.ts 139-390: one frame of the response is read and routed
ReadFrame(r) ==
  /\ reader[r].pc = "reading"
  /\ ~reader[r].aborted
  /\ reader[r].pos < Len(events[r])
  /\ LET frame == events[r][reader[r].pos + 1]
         next == [reader EXCEPT ![r].pos = @ + 1]
     IN CASE frame.event = "start" ->
               /\ store' = HandleStart(store, frame, StreamBody)
               /\ reader' = next
               /\ UNCHANGED calls
          [] frame.event = "token" ->
               /\ store' = HandleToken(store, frame.data)
               /\ reader' = next
               /\ UNCHANGED calls
          [] frame.event \in {"status", "structured_data", "viz_config"} ->
               /\ IF store.currentAssistantId = NULL
                  THEN /\ reader' = [reader EXCEPT ![r].pc = "finished"]
                       /\ UNCHANGED store
                  ELSE /\ store' = HandlePipelineEvent(store)
                       /\ reader' = next
               /\ UNCHANGED calls
          [] frame.event = "end" ->
               /\ store' = HandleEnd(store, frame.data)
               /\ reader' = next
               /\ calls' = [calls EXCEPT !.loads = Append(@, GetMessages)]
          [] frame.event = "error" ->
               /\ store' = [store EXCEPT !.isStreaming = FALSE]
               /\ reader' = next
               /\ UNCHANGED calls
          [] OTHER ->
               /\ reader' = next
               /\ UNCHANGED <<store, calls>>
  /\ UNCHANGED <<serverVars, prompt, sse, turnView>>

\* chat-store.ts 140-141: the response body has ended
ReadEnd(r) ==
  /\ reader[r].pc = "reading"
  /\ ~reader[r].aborted
  /\ reader[r].pos = Len(events[r])
  /\ stream[r] = "closed"
  /\ reader' = [reader EXCEPT ![r].pc = "finished"]
  /\ UNCHANGED <<serverVars, prompt, sse, store, calls, turnView>>

\* chat-store.ts 391-396: the fetch or the read rejects after the abort
ReaderAborted(r) ==
  /\ reader[r].pc \in {"fetching", "reading"}
  /\ reader[r].aborted
  /\ reader' = [reader EXCEPT ![r].pc = "failed"]
  /\ store' = [store EXCEPT !.isStreaming = FALSE]
  /\ UNCHANGED <<serverVars, prompt, sse, calls, turnView>>

\* chat-store.ts 64-66 with conversations/route.ts 109-119
LoadFetch ==
  /\ Len(calls.loads) < MaxLoads
  /\ calls' = [calls EXCEPT !.loads = Append(@, GetMessages)]
  /\ UNCHANGED <<serverVars, prompt, sse, store, reader, turnView>>

\* chat-store.ts 67-107: the response of the i-th call in flight is handled
LoadApply(i) ==
  /\ i \in DOMAIN calls.loads
  /\ store' = ApplyLoad(store, calls.loads[i])
  /\ calls' = [calls EXCEPT !.loads = SubSeq(@, 1, i - 1) \o SubSeq(@, i + 1, Len(@))]
  /\ UNCHANGED <<serverVars, prompt, sse, reader, turnView>>

\* chat-store.ts 402-409 with the stop route: the POST is handled
stopStreamPost ==
  /\ ~calls.stop
  /\ \E r \in Reqs : reader[r].pc # "none"
  /\ RegistryStop("c1", "user")
  /\ calls' = [calls EXCEPT !.stop = TRUE]
  /\ UNCHANGED <<hasApiKey, title, msgs, nextId, req, events, stream, reqLimit, fragLimit,
                 prompt, sse, store, reader, turnView>>

\* chat-store.ts 410-415
stopStreamAbort ==
  /\ calls.stop
  /\ calls' = [calls EXCEPT !.stop = FALSE]
  /\ reader' = [q \in Reqs |-> IF q = store.controllers
                                THEN [reader[q] EXCEPT !.aborted = TRUE] ELSE reader[q]]
  /\ store' = [store EXCEPT !.isStreaming = FALSE, !.controllers = NULL]
  /\ UNCHANGED <<serverVars, prompt, sse, turnView>>

\* chat-store.ts 418-429
clearStream ==
  /\ store.controllers # NULL \/ store.currentAssistantId # NULL
  /\ reader' = [q \in Reqs |-> IF q = store.controllers
                                THEN [reader[q] EXCEPT !.aborted = TRUE] ELSE reader[q]]
  /\ store' = [store EXCEPT !.isStreaming = FALSE, !.controllers = NULL,
                            !.currentAssistantId = NULL]
  /\ UNCHANGED <<serverVars, prompt, sse, calls, turnView>>

\* the connection of an aborted call is gone: route.ts 382-384 runs
ClientGone(r) ==
  /\ reader[r].aborted
  /\ StreamCancel(r)

NextClient ==
  \/ \E r \in Reqs : openStream(r)
  \/ \E r \in Reqs : FetchResponse(r)
  \/ \E r \in Reqs : ReadFrame(r)
  \/ \E r \in Reqs : ReadEnd(r)
  \/ \E r \in Reqs : ReaderAborted(r)
  \/ LoadFetch
  \/ \E i \in 1..(MaxLoads + MaxGen) : LoadApply(i)
  \/ stopStreamPost
  \/ stopStreamAbort
  \/ clearStream
  \/ \E r \in Reqs : ClientGone(r)
  \/ \E r \in Reqs : FindConversation(r)
  \/ \E r \in Reqs : FindLastNonUser(r)
  \/ \E r \in Reqs : CreateUserMessage(r)
  \/ \E r \in Reqs : UpdateTitle(r)
  \/ \E r \in Reqs : CreatePlaceholder(r)
  \/ \E r \in Reqs : OpenStream(r)
  \/ \E r \in Reqs : StreamChunk(r)
  \/ \E r \in Reqs : Checkpoint(r)
  \/ \E r \in Reqs : PersistComplete(r)
  \/ \E r \in Reqs : GenerateTitle(r)
  \/ \E r \in Reqs : VisualizationPipeline(r)
  \/ \E r \in Reqs : PersistInterrupted(r)
  \/ \E r \in Reqs : PersistError(r)

SpecClient == InitClient /\ [][NextClient]_vars

\* MaxGen generations of at most MaxShortTokens fragments, opened one after
\* the other by the same client on a conversation that has its title
InitClientTwo ==
  /\ hasApiKey = TRUE
  /\ title = "user"
  /\ msgs = <<SystemRoot>>
  /\ nextId = 2
  /\ controllers = [c \in ConvIds |-> NULL]
  /\ abortCause = [r \in Reqs |-> "none"]
  /\ req = [r \in Reqs |-> InitialRequest]
  /\ events = [r \in Reqs |-> <<>>]
  /\ stream = [r \in Reqs |-> "none"]
  /\ reqLimit = MaxGen
  /\ fragLimit = MaxShortTokens
  /\ prompt = NoPrompt
  /\ sse = NoSse
  /\ store = EmptyStore
  /\ reader = [r \in Reqs |-> NoReader]
  /\ calls = NoCalls
  /\ turnView = NoTurnView

NextClientTwo ==
  \/ \E r \in Reqs : openStream(r)
  \/ \E r \in Reqs : FetchResponse(r)
  \/ \E r \in Reqs : ReadFrame(r)
  \/ \E r \in Reqs : ReadEnd(r)
  \/ \E r \in Reqs : ReaderAborted(r)
  \/ \E i \in 1..MaxGen : LoadApply(i)
  \/ clearStream
  \/ \E r \in Reqs : ClientGone(r)
  \/ \E r \in Reqs : FindConversation(r)
  \/ \E r \in Reqs : FindLastNonUser(r)
  \/ \E r \in Reqs : CreateUserMessage(r)
  \/ \E r \in Reqs : CreatePlaceholder(r)
  \/ \E r \in Reqs : OpenStream(r)
  \/ \E r \in Reqs : StreamChunk(r)
  \/ \E r \in Reqs : PersistComplete(r)
  \/ \E r \in Reqs : VisualizationPipeline(r)
  \/ \E r \in Reqs : PersistError(r)

SpecClientTwo == InitClientTwo /\ [][NextClientTwo]_vars

----------------------------------------------------------------------------
(* BranchingChat (src/unnamed/part_003 99-345): the turns state is computed  *)
(* from the list the store holds by organizeMessagesByTurns, in the effect   *)
(* that runs when the list changes; the navigation handlers change the       *)
(* selection indexes of a turn.  A list holds messages in creation order;    *)
(* a parent id names an earlier message, or one the list does not hold.      *)

MaxMessages == 4
MaxVariantIndex == 1
MaxCreatedAt == 2

\* the id of a message that is not in the list
AbsentId == MaxMessages + 1

Message(messageId, role, parentId, variantIndex, createdAt) ==
  [messageId |-> messageId, role |-> role, parentId |-> parentId,
   variantIndex |-> variantIndex, createdAt |-> createdAt]

ParentIds(i) == {NULL, AbsentId} \cup 1..(i - 1)

\* the messages that can be the i-th of a list
MessagesAt(i) ==
  {Message(i, "USER", p, 0, t) : p \in ParentIds(i), t \in 1..MaxCreatedAt}
  \cup UNION {{Message(i, "ASSISTANT", p, v, t) : p \in ParentIds(i), t \in 1..MaxCreatedAt}
                : v \in 0..MaxVariantIndex}
  \cup (IF i = 1 THEN {Message(i, "SYSTEM", NULL, 0, t) : t \in 1..MaxCreatedAt} ELSE {})

\* new Map(messages.map(...)).has(id)
byIdHas(messages, id) == \E i \in DOMAIN messages : messages[i].messageId = id

\* new Map(messages.map(...)).get(id): the last entry with that id
byIdGet(messages, id) ==
  LET hits == {i \in DOMAIN messages : messages[i].messageId = id}
  IN messages[CHOOSE i \in hits : \A j \in hits : j <= i]

\* Array.prototype.sort (stable) on new Date(createdAt).getTime()
RECURSIVE sortByCreatedAt(_)
sortByCreatedAt(list) ==
  IF list = <<>> THEN <<>>
  ELSE LET m == list[Len(list)]
           rest == sortByCreatedAt(SubSeq(list, 1, Len(list) - 1))
           NotAfter(x) == x.createdAt <= m.createdAt
           After(x) == x.createdAt > m.createdAt
       IN SelectSeq(rest, NotAfter) \o <<m>> \o SelectSeq(rest, After)

\* a sort that reverses the variants
RECURSIVE sortByVariantIndexDescending(_)
sortByVariantIndexDescending(list) ==
  IF list = <<>> THEN <<>>
  ELSE LET m == list[Len(list)]
           rest == sortByVariantIndexDescending(SubSeq(list, 1, Len(list) - 1))
           NotBefore(x) == x.variantIndex >= m.variantIndex
           Before(x) == x.variantIndex < m.variantIndex
       IN SelectSeq(rest, NotBefore) \o <<m>> \o SelectSeq(rest, Before)

\* part_003 169: Array.prototype.sort (stable) on variantIndex || 0
RECURSIVE sortByVariantIndex(_)
sortByVariantIndex(list) ==
  IF list = <<>> THEN <<>>
  ELSE LET m == list[Len(list)]
           rest == sortByVariantIndex(SubSeq(list, 1, Len(list) - 1))
           NotAfter(x) == x.variantIndex <= m.variantIndex
           After(x) == x.variantIndex > m.variantIndex
       IN SelectSeq(rest, NotAfter) \o <<m>> \o SelectSeq(rest, After)

\* part_003 190-209: acc is [versions, visited]
RECURSIVE collectVersions(_, _, _)
RECURSIVE collectChildren(_, _, _)
collectVersions(messages, messageId, acc) ==
  IF messageId \in acc.visited THEN acc
  ELSE LET seen == [acc EXCEPT !.visited = @ \cup {messageId}]
           hits == {i \in DOMAIN messages : messages[i].messageId = messageId}
       IN IF hits = {} THEN seen
          ELSE LET message == messages[CHOOSE i \in hits : \A j \in hits : i <= j]
                   IsChild(m) == m.role = "USER" /\ m.parentId = messageId
               IN IF message.role # "USER" THEN seen
                  ELSE collectChildren(messages, SelectSeq(messages, IsChild),
                                       [seen EXCEPT !.versions = Append(@, message)])

collectChildren(messages, children, acc) ==
  IF children = <<>> THEN acc
  ELSE collectChildren(messages, Tail(children),
                       collectVersions(messages, Head(children).messageId, acc))

\* part_003 186-216
findAllUserVersions(messages, rootMessageId) ==
  sortByCreatedAt(collectVersions(messages, rootMessageId,
                                  [versions |-> <<>>, visited |-> {}]).versions)

\* part_003 141-153
rootUserMessages(messages) ==
  LET IsRoot(m) ==
        /\ m.role = "USER"
        /\ \/ m.parentId = NULL
           \/ ~byIdHas(messages, m.parentId)
           \/ byIdGet(messages, m.parentId).role # "USER"
  IN sortByCreatedAt(SelectSeq(messages, IsRoot))

\* part_003 155-181: the turn of one root
TurnOf(messages, rootUser) ==
  LET userVersions == findAllUserVersions(messages, rootUser.messageId)
      versionIds == {userVersions[i].messageId : i \in DOMAIN userVersions}
  IN [userVersions |-> userVersions,
      currentUserVersion |-> Len(userVersions) - 1,
      assistantVariants |->
        [id \in versionIds |->
           LET Answers(m) == m.role = "ASSISTANT" /\ m.parentId = id
           IN sortByVariantIndex(SelectSeq(messages, Answers))],
      currentAssistantVariant |-> [id \in versionIds |-> 0]]

\* part_003 139-184
organizeMessagesByTurns(messages) ==
  LET roots == rootUserMessages(messages)
  IN [k \in DOMAIN roots |-> TurnOf(messages, roots[k])]

\* the component is mounted: useState([]), the store's list is empty
\* (store.messages[conversationId] ?? []) and the effect is pending
InitTurns ==
  /\ ServerIdle
  /\ prompt = NoPrompt
  /\ sse = NoSse
  /\ store = EmptyStore
  /\ reader = [r \in Reqs |-> NoReader]
  /\ calls = NoCalls
  /\ turnView = [pc |-> "effect", messages |-> <<>>, turns |-> <<>>]

\* part_003 223-240: the effect on storeMessages (setTurns at 233)
RenderTurns ==
  /\ turnView.pc = "effect"
  /\ turnView' = [turnView EXCEPT !.pc = "idle",
                                  !.turns = organizeMessagesByTurns(turnView.messages)]
  /\ UNCHANGED <<serverVars, prompt, sse, store, reader, calls>>

\* the store's list changes: a message is appended to it (the pending effect
\* of a render runs before the next update is handled)
StoreAppend ==
  /\ turnView.pc = "idle"
  /\ Len(turnView.messages) < MaxMessages
  /\ \E m \in MessagesAt(Len(turnView.messages) + 1) :
       turnView' = [turnView EXCEPT !.pc = "effect", !.messages = Append(@, m)]
  /\ UNCHANGED <<serverVars, prompt, sse, store, reader, calls>>

\* part_003 297-313, offered when the turn has more than one version (396)
navigateUserVersion(turnIndex, direction) ==
  /\ turnView.pc = "idle"
  /\ turnIndex \in DOMAIN turnView.turns
  /\ LET turn == turnView.turns[turnIndex]
         newIndex == IF direction = "prev"
                     THEN IF turn.currentUserVersion - 1 > 0
                          THEN turn.currentUserVersion - 1 ELSE 0
                     ELSE IF turn.currentUserVersion + 1 < Len(turn.userVersions) - 1
                          THEN turn.currentUserVersion + 1 ELSE Len(turn.userVersions) - 1
     IN /\ Len(turn.userVersions) > 1
        /\ turnView' = [turnView EXCEPT !.turns[turnIndex].currentUserVersion = newIndex]
  /\ UNCHANGED <<serverVars, prompt, sse, store, reader, calls>>

\* part_003 315-340, offered when the version has more than one variant (481)
navigateAssistantVariant(turnIndex, userMessageId, direction) ==
  /\ turnView.pc = "idle"
  /\ turnIndex \in DOMAIN turnView.turns
  /\ userMessageId \in DOMAIN turnView.turns[turnIndex].assistantVariants
  /\ LET turn == turnView.turns[turnIndex]
         variants == turn.assistantVariants[userMessageId]
         currentIndex == turn.currentAssistantVariant[userMessageId]
         newIndex == IF direction = "prev"
                     THEN IF currentIndex - 1 > 0 THEN currentIndex - 1 ELSE 0
                     ELSE IF currentIndex + 1 < Len(variants) - 1
                          THEN currentIndex + 1 ELSE Len(variants) - 1
     IN /\ Len(variants) > 1
        /\ turnView' = [turnView EXCEPT
             !.turns[turnIndex].currentAssistantVariant[userMessageId] = newIndex]
  /\ UNCHANGED <<serverVars, prompt, sse, store, reader, calls>>

NextTurns ==
  \/ RenderTurns
  \/ StoreAppend
  \/ \E turnIndex \in 1..MaxMessages, direction \in {"prev", "next"} :
       navigateUserVersion(turnIndex, direction)
  \/ \E turnIndex \in 1..MaxMessages, userMessageId \in 1..MaxMessages,
        direction \in {"prev", "next"} :
       navigateAssistantVariant(turnIndex, userMessageId, direction)

SpecTurns == InitTurns /\ [][NextTurns]_vars

----------------------------------------------------------------------------
(* Properties *)

StreamingRows == {i \in DOMAIN msgs : msgs[i].status = "STREAMING"}

Last(seq) == seq[Len(seq)]

Started(r) == events[r] # <<>> /\ events[r][1].event = "start"

\* the handle of r exists and its task has not reached its streaming loop's end
InStreamingLoop(r) == req[r].pc \in {"streaming", "checkpoint"}

IsEditRequest(r) ==
  /\ req[r].pc \notin {"new", "findConv", "rejected"}
  /\ ~req[r].isRegeneration
  /\ req[r].isEditedPrompt
  /\ req[r].userMessageParentId # NULL

AssistantRowOf(r) == RowOf(req[r].assistantMessageId)

HasAssistantRow(r) == req[r].assistantMessageId # NULL /\ RowExists(req[r].assistantMessageId)

EndedWith(r, status) ==
  /\ events[r] # <<>>
  /\ Last(events[r]).event = "end"
  /\ Last(events[r]).data = status

\* C1: at most one message row of the conversation has status STREAMING.
C1_AtMostOneStreaming == Cardinality(StreamingRows) <= 1

\* C2: registry set never displaces the handle of a generation in flight
\* without that handle having been aborted before the entry is replaced.
C2_SetAbortsDisplaced ==
  [][\A c \in ConvIds :
       (/\ controllers[c] # NULL
        /\ controllers'[c] # NULL
        /\ controllers'[c] # controllers[c]
        /\ InStreamingLoop(controllers[c]))
       => abortCause'[controllers[c]] # "none"]_vars

\* C3: when a generation's assistant placeholder is created, every earlier
\* generation of the conversation that is still streaming has been aborted.
C3_AbortedBeforePlaceholder ==
  [][\A b \in Reqs :
       (req[b].pc = "createPlaceholder" /\ req'[b].pc = "openStream")
       => \A a \in Reqs \ {b} :
            (req[a].conversationId = req[b].conversationId /\ InStreamingLoop(a))
            => Aborted(a)]_vars

\* C4: a generation whose handle a stop request aborted (so the stop came
\* after its start frame and before its end frame) ends with end
\* "interrupted" and its row INTERRUPTED, reason "user_cancelled", content as
\* accumulated; stated for streams the client still reads, generations that
\* do not fail and final writes that succeed.
C4_StopInterrupts ==
  \A r \in Reqs :
    (/\ abortCause[r] = "user"
     /\ req[r].pc = "done"
     /\ stream[r] # "cancelled"
     /\ Last(events[r]).event # "error"
     /\ ~req[r].finalWriteFailed
     /\ HasAssistantRow(r))
    => /\ EndedWith(r, "interrupted")
       /\ AssistantRowOf(r).status = "INTERRUPTED"
       /\ AssistantRowOf(r).finishReason = "user_cancelled"
       /\ AssistantRowOf(r).content = req[r].accumulated

TerminalStatuses == {"COMPLETE", "INTERRUPTED", "ERROR"}

TerminalFrames(r) == {i \in DOMAIN events[r] : IsTerminal(events[r][i])}

\* C6: a stream that has emitted start carries at most one terminal frame
\* (end or error), no frame follows it, and once its task has finished the
\* terminal frame is there (as long as the consumer has not cancelled the
\* stream, after which nothing can be enqueued).
C6_OneTerminalFrame ==
  \A r \in Reqs :
    Started(r) =>
      /\ Cardinality(TerminalFrames(r)) <= 1
      /\ TerminalFrames(r) \subseteq {Len(events[r])}
      /\ (TerminalFrames(r) # {}) = (stream[r] = "closed")
      /\ (req[r].pc = "done" /\ stream[r] # "cancelled") => TerminalFrames(r) # {}

C6_Witness ==
  \E r \in Reqs :
    /\ Started(r)
    /\ req[r].pc = "done"
    /\ Last(events[r]).event = "error"
    /\ Len(events[r]) > 2

IsCoreFrame(e) == e.event \in {"start", "token", "finish", "end", "error"}

IsTokenFrame(e) == e.event = "token"

CoreFrames(r) == SelectSeq(events[r], IsCoreFrame)

TokenFragments(r) ==
  LET t == SelectSeq(events[r], IsTokenFrame)
  IN [i \in DOMAIN t |-> t[i].data]

\* a new-message generation that ran to its end("complete") frame
NewMessageCompleted(r) ==
  /\ ~req[r].isRegeneration
  /\ req[r].pc = "done"
  /\ EndedWith(r, "complete")
  /\ HasAssistantRow(r)

\* the frames are start, the token frames, finish, end("complete") in that
\* order (the title and pipeline frames lie between finish and end), and the
\* row is COMPLETE with the concatenation of the token fragments as content
OrderedAndPersisted(r) ==
  LET core == CoreFrames(r)
      n == Len(core)
  IN /\ n >= 3
     /\ core[1].event = "start"
     /\ events[r][1].event = "start"
     /\ \A i \in 2..(n - 2) : core[i].event = "token"
     /\ core[n - 1].event = "finish"
     /\ core[n].event = "end" /\ core[n].data = "complete"
     /\ \A i \in DOMAIN events[r] :
          events[r][i].event \in {"title", "status", "structured_data", "viz_config"}
          => \E j \in 1..(i - 1) : events[r][j].event = "finish"
     /\ AssistantRowOf(r).status = "COMPLETE"
     /\ AssistantRowOf(r).content = TokenFragments(r)
     /\ AssistantRowOf(r).content = req[r].accumulated

\* C7 as stated: ... and the persisted content is non-empty.
C7_OrderedCompleteNonEmpty ==
  \A r \in Reqs :
    NewMessageCompleted(r) => OrderedAndPersisted(r) /\ AssistantRowOf(r).content # <<>>

\* C7 amended: for a new-message generation that is neither cancelled nor
\* fails, the frames come in the order start, token frames, finish,
\* end("complete"), and the row is persisted COMPLETE with the accumulated
\* content, which is non-empty exactly when a token frame was emitted.
C7_OrderedComplete ==
  \A r \in Reqs :
    NewMessageCompleted(r) =>
      /\ OrderedAndPersisted(r)
      /\ (AssistantRowOf(r).content # <<>>) = (\E i \in DOMAIN events[r] : IsTokenFrame(events[r][i]))

C7_Witness ==
  \E r \in Reqs :
    /\ NewMessageCompleted(r)
    /\ Len(TokenFragments(r)) >= 2
    /\ AssistantRowOf(r).content = <<"a", "b">>

\* C8: the assistant row that answered the edited version and whose
\* generation the edit aborted has, once that generation has finished
\* (its final write having succeeded), status INTERRUPTED and finish reason
\* "user_edited_prompt".
C8_EditedPromptReason ==
  \A g \in Reqs :
    (/\ req[g].pc = "done"
     /\ abortCause[g] = "edit"
     /\ ~req[g].finalWriteFailed
     /\ HasAssistantRow(g)
     /\ \E e \in Reqs : /\ IsEditRequest(e)
                        /\ req[e].pc \notin {"editStop", "editMark"}
                        /\ req[e].userMessageParentId = AssistantRowOf(g).parentId)
    => /\ AssistantRowOf(g).status = "INTERRUPTED"
       /\ AssistantRowOf(g).finishReason = "user_edited_prompt"

UserRowIndexes == {i \in DOMAIN msgs : msgs[i].role = "USER"}

\* C9: an edit request creates exactly one new USER row, persisted COMPLETE,
\* whose parent is the prior version's id; the assistant placeholder of the
\* generation that follows has the new USER row's id as parent.
C9_EditCreatesOneUserRow ==
  /\ Cardinality(UserRowIndexes)
       = Cardinality({q \in Reqs : ~req[q].isRegeneration /\ req[q].userMessageId # NULL})
  /\ \A e \in Reqs :
       IsEditRequest(e) =>
         /\ (req[e].userMessageId = NULL) = (req[e].pc \in {"editStop", "editMark", "createUser"})
         /\ req[e].userMessageId # NULL =>
              /\ Cardinality({i \in DOMAIN msgs : msgs[i].messageId = req[e].userMessageId}) = 1
              /\ RowOf(req[e].userMessageId).role = "USER"
              /\ RowOf(req[e].userMessageId).status = "COMPLETE"
              /\ RowOf(req[e].userMessageId).parentId = req[e].userMessageParentId
              /\ \E i \in UserRowIndexes : msgs[i].messageId = req[e].userMessageParentId
         /\ req[e].assistantMessageId # NULL =>
              /\ AssistantRowOf(e).role = "ASSISTANT"
              /\ AssistantRowOf(e).parentId = req[e].userMessageId
              /\ req[e].userMessageId # NULL

C9_Witness ==
  \E e \in Reqs :
    /\ IsEditRequest(e)
    /\ req[e].assistantMessageId # NULL
    /\ AssistantRowOf(e).parentId = req[e].userMessageId
    /\ RowOf(req[e].userMessageId).parentId # NULL

VariantIndexesOf(u) ==
  {i \in DOMAIN msgs : msgs[i].role = "ASSISTANT" /\ msgs[i].parentId = u}

\* C10: the variant indices of the ASSISTANT rows sharing a USER row as
\* parent are pairwise distinct and form the range 0..n-1.
C10_VariantsContiguous ==
  \A u \in UserRowIndexes :
    LET vs == VariantIndexesOf(msgs[u].messageId)
    IN /\ \A i, j \in vs : i # j => msgs[i].variantIndex # msgs[j].variantIndex
       /\ {msgs[i].variantIndex : i \in vs} = 0..(Cardinality(vs) - 1)

\* the request r takes a step
Steps(r) == req'[r] # req[r]

\* C11: a regeneration request creates no USER row and changes no existing
\* USER row; the only row it creates is one ASSISTANT row, whose parent is
\* the parent user-message id the request supplied and whose variant index
\* is the index the request supplied.
C11_RegenerationCreatesOneAssistantRow ==
  [][\A r \in Reqs :
       (req[r].isRegeneration /\ Steps(r)) =>
         /\ \A i \in DOMAIN msgs : msgs[i].role = "USER" =>
              i \in DOMAIN msgs' /\ msgs'[i] = msgs[i]
         /\ Len(msgs') \in {Len(msgs), Len(msgs) + 1}
         /\ \A i \in DOMAIN msgs : msgs'[i].messageId = msgs[i].messageId
         /\ Len(msgs') = Len(msgs) + 1 =>
              /\ req[r].assistantMessageId = NULL
              /\ req'[r].assistantMessageId = Last(msgs').messageId
              /\ Last(msgs').role = "ASSISTANT"
              /\ Last(msgs').parentId = req[r].parentUserMessageId
              /\ Last(msgs').variantIndex = req[r].variantIndex
         /\ (req'[r].pc = "done" /\ req[r].pc # "done") =>
              req[r].assistantMessageId # NULL]_vars

C11_Witness ==
  \E r \in Reqs :
    /\ req[r].isRegeneration
    /\ req[r].pc = "done"
    /\ HasAssistantRow(r)
    /\ AssistantRowOf(r).variantIndex = 1
    /\ AssistantRowOf(r).parentId = req[r].parentUserMessageId
    /\ Cardinality(UserRowIndexes) = 1

\* C12: while the upstream credential is missing, every generate request is
\* answered with a single error frame and nothing else happens: no Message
\* row is created, the conversation is not modified and no cancellation
\* handle is registered.
C12_MissingCredentialRejects ==
  ~hasApiKey =>
    /\ \A r \in Reqs :
         /\ req[r].pc \in {"new", "findConv", "rejected"}
         /\ events[r] = IF req[r].pc = "rejected"
                        THEN <<sseChunk("error", "OpenAI API key not configured")>>
                        ELSE <<>>
         /\ stream[r] = IF req[r].pc = "rejected" THEN "closed" ELSE "none"
         /\ req[r].userMessageId = NULL
         /\ req[r].assistantMessageId = NULL
    /\ \A i \in DOMAIN msgs : msgs[i] = SystemRoot
    /\ Len(msgs) <= 1
    /\ title = "New Chat"
    /\ \A c \in ConvIds : controllers[c] = NULL
    /\ \A h \in Reqs : ~Aborted(h)

C12_Witness ==
  /\ ~hasApiKey
  /\ \E r, q \in Reqs :
       /\ req[r].pc = "rejected" /\ req[r].conversationId = "c1" /\ req[r].isRegeneration = FALSE
       /\ req[q].pc = "rejected" /\ req[q].conversationId = "cX"

\* C13: a generate request naming an unknown conversation id (the credential
\* being configured) is answered with a single error frame and does nothing
\* else, then or later: no Message row is created, no registry entry is set,
\* no handle is aborted and no start frame is emitted.
C13_UnknownConversationRejects ==
  [][\A r \in Reqs :
       /\ (req[r].pc = "findConv" /\ Steps(r) /\ hasApiKey /\ req[r].conversationId = "cX")
          => /\ req'[r].pc = "rejected"
             /\ events'[r] = <<sseChunk("error", "Conversation not found")>>
             /\ stream'[r] = "closed"
             /\ req'[r].userMessageId = NULL /\ req'[r].assistantMessageId = NULL
             /\ UNCHANGED <<msgs, nextId, title, controllers, abortCause>>
       /\ req[r].pc = "rejected"
          => /\ ~Steps(r)
             /\ events'[r] = events[r]
             /\ stream'[r] = stream[r]
             /\ controllers'[req[r].conversationId] # r]_vars

C13_Witness ==
  /\ hasApiKey
  /\ \E r, q \in Reqs :
       /\ req[r].pc = "rejected" /\ req[r].conversationId = "cX"
       /\ events[r] = <<sseChunk("error", "Conversation not found")>>
       /\ InStreamingLoop(q) /\ ~Aborted(q)
       /\ controllers[req[q].conversationId] = q

\* the step is a stop request: the only step that changes neither a request
\* nor a response stream
IsStopRequestStep == req' = req /\ stream' = stream

\* stop(c) on a conversation with an entry: the registered handle is aborted,
\* the entry is removed, nothing else changes in the registry
StopContract(c) ==
  LET h == controllers[c]
  IN /\ h # NULL
     /\ abortCause'[h] # "none"
     /\ \A g \in Reqs \ {h} : abortCause'[g] = abortCause[g]
     /\ controllers' = [controllers EXCEPT ![c] = NULL]

\* clear(c): the entry is removed and no handle is aborted
ClearContract(c) ==
  /\ controllers' = [controllers EXCEPT ![c] = NULL]
  /\ abortCause' = abortCause

\* C14: stop(conversationId) aborts the registered handle and removes the
\* entry; clear(conversationId) removes the entry without aborting the
\* handle; stop on a conversation with no entry aborts nothing and leaves
\* the registry unchanged; and no handle is aborted by any other step.
C14_RegistryContract ==
  [][/\ IsStopRequestStep => \E c \in ConvIds : StopContract(c) /\ UNCHANGED <<msgs, events, title>>
     /\ \A r \in Reqs :
          LET c == req[r].conversationId
          IN /\ (req[r].pc = "editStop" /\ Steps(r))
                => IF controllers[c] = NULL
                   THEN UNCHANGED <<controllers, abortCause>>
                   ELSE StopContract(c)
             /\ (stream[r] = "open" /\ stream'[r] = "cancelled") => ClearContract(c)
             /\ (req[r].pc = "pipeline" /\ req'[r].pc = "done") => ClearContract(c)
     /\ abortCause' # abortCause
          => \/ IsStopRequestStep
             \/ \E r \in Reqs : req[r].pc = "editStop" /\ Steps(r)]_vars

C14_Witness ==
  \E r, q \in Reqs :
    /\ r # q
    /\ abortCause[r] = "user"
    /\ req[r].pc = "streaming"
    /\ controllers[req[r].conversationId] = NULL
    /\ req[q].pc = "done" /\ EndedWith(q, "complete") /\ ~Aborted(q)

\* the USER rows that edit requests created as new versions of USER row u
EditedSuccessors(u) ==
  {j \in UserRowIndexes :
     /\ msgs[j].parentId = u
     /\ \E e \in Reqs : IsEditRequest(e) /\ req[e].userMessageId = msgs[j].messageId}

\* C15: the edit-chain parent pointers among USER rows form a simple path:
\* no version is its own ancestor and every version has at most one edited
\* successor.
C15_EditChainIsPath ==
  \A i \in UserRowIndexes :
    /\ msgs[i].parentId < msgs[i].messageId
    /\ Cardinality(EditedSuccessors(msgs[i].messageId)) <= 1

\* C16: the parent id of every ASSISTANT row a generation request created is
\* the id of an existing USER row of the conversation, whatever parent
\* fields the request carried.
C16_AssistantParentIsUserRow ==
  \A r \in Reqs :
    HasAssistantRow(r) =>
      \E j \in UserRowIndexes : msgs[j].messageId = AssistantRowOf(r).parentId

\* C17: the USER row created by a request that is not an edit (it names no
\* earlier version) has parent null or the id of the last non-USER row of
\* the conversation at the time the row is created.
C17_UserParentIsLastNonUser ==
  [][\A r \in Reqs :
       (/\ req[r].pc = "createUser"
        /\ Steps(r)
        /\ ~req[r].isEditedPrompt
        /\ req[r].userMessageParentId = NULL)
       => /\ Last(msgs').role = "USER"
          /\ Last(msgs').parentId \in {NULL, LastNonUser}]_vars

\* C18: once an ASSISTANT row is persisted with status COMPLETE, no later
\* step changes its content or its status.
C18_CompleteIsImmutable ==
  [][\A i \in DOMAIN msgs :
       (msgs[i].role = "ASSISTANT" /\ msgs[i].status = "COMPLETE")
       => /\ i \in DOMAIN msgs'
          /\ msgs'[i].messageId = msgs[i].messageId
          /\ msgs'[i].status = "COMPLETE"
          /\ msgs'[i].content = msgs[i].content]_vars

StartFrames(evs) == {i \in DOMAIN evs : evs[i].event = "start"}

\* C19: the assistant placeholder (empty content, status STREAMING, parent =
\* the resolved user message id, the resolved variant index) is persisted
\* while the request has neither a response stream nor an upstream call; the
\* step that opens the upstream call emits the start frame, which names the
\* placeholder; and a stream holds the start frame exactly once, as its
\* first frame, so before any token frame.
C19_PlaceholderThenStart ==
  [][\A r \in Reqs :
       /\ (req[r].pc = "createPlaceholder" /\ Steps(r))
          => /\ req'[r].pc = "openStream"
             /\ msgs' = Append(msgs, Row(req'[r].assistantMessageId, "ASSISTANT", <<>>,
                                         "STREAMING", req[r].userMessageId, req[r].variantIndex))
             /\ ~RowExists(req'[r].assistantMessageId)
             /\ events'[r] = <<>> /\ stream'[r] = "none"
       /\ (req'[r].pc = "streaming" /\ req[r].pc # "streaming" /\ req[r].pc # "checkpoint")
          => /\ req[r].pc = "openStream"
             /\ RowExists(req[r].assistantMessageId)
             /\ RowOf(req[r].assistantMessageId).role = "ASSISTANT"
             /\ events[r] = <<>>
             /\ Len(events'[r]) = 1
             /\ events'[r][1].event = "start"
             /\ events'[r][1].messageId = req[r].assistantMessageId
             /\ events'[r][1].parentId = req[r].userMessageId
       /\ req'[r].pc \in {"streaming", "checkpoint", "persistComplete", "title", "pipeline"}
          => StartFrames(events'[r]) = {1}
       /\ StartFrames(events'[r]) \subseteq {1}
       /\ \A i \in DOMAIN events'[r] :
            events'[r][i].event = "token" => (i > 1 /\ StartFrames(events'[r]) = {1})]_vars

C19_Witness ==
  \E r \in Reqs :
    /\ req[r].pc = "done"
    /\ HasAssistantRow(r)
    /\ StartFrames(events[r]) = {1}
    /\ events[r][1].messageId = req[r].assistantMessageId
    /\ Len(TokenFragments(r)) = MaxTokens
    /\ EndedWith(r, "complete")

CheckpointWriteFailed(r) ==
  /\ req[r].pc = "checkpoint"
  /\ Steps(r)
  /\ msgs' = msgs

C21_CheckpointFailureContained ==
  /\ [][\A r \in Reqs :
          CheckpointWriteFailed(r) =>
            /\ req'[r].accumulated = req[r].accumulated
            /\ req'[r].completionTokens = req[r].completionTokens
            /\ TokenFragments(r)' = TokenFragments(r)
            /\ \A i \in DOMAIN events'[r] : events'[r][i].event # "error"
            /\ req'[r].pc = IF ~req[r].pendingFinish THEN "streaming"
                            ELSE IF CanEnqueue(r) THEN "persistComplete"
                            ELSE "persistError"]_vars
  /\ [](\A r \in Reqs :
          /\ req[r].pc \in {"streaming", "checkpoint", "persistComplete"}
             => req[r].accumulated = TokenFragments(r)
          /\ HasAssistantRow(r) /\ AssistantRowOf(r).status = "COMPLETE"
             => AssistantRowOf(r).content = TokenFragments(r))

\* the save after the fifth fragment failed (the row is still empty), a sixth
\* token frame was sent, and the generation completed with all six fragments
C21_Witness ==
  \E r \in Reqs :
    /\ req[r].pc = "streaming"
    /\ req[r].completionTokens > SAVE_EVERY_N_TOKENS
    /\ Len(TokenFragments(r)) = req[r].completionTokens
    /\ HasAssistantRow(r)
    /\ AssistantRowOf(r).status = "STREAMING"
    /\ AssistantRowOf(r).content = <<>>

----------------------------------------------------------------------------
(* Properties of buildPrompt, over the returned state of SpecPrompt *)

Returned == prompt.pc = "returned"

SystemMsg == ChatMessage("system", prompt.systemPrompt)

PromptTarget ==
  prompt.maxContextTokens - Headroom(prompt.maxContextTokens, prompt.outputHeadroomRatio)

RECURSIVE SumCost(_)
SumCost(messages) ==
  IF messages = <<>> THEN 0 ELSE pushAndMeasure(Head(messages)) + SumCost(Tail(messages))

HistorySuffix(k) == SubSeq(prompt.history, k + 1, Len(prompt.history))

\* C22: buildPrompt always returns the system message as the first selected
\* message, and when the system message's cost alone exceeds the target the
\* result is the system message alone.
C22_SystemMessageFirst ==
  Returned =>
    /\ prompt.result.messages # <<>>
    /\ prompt.result.messages[1] = SystemMsg
    /\ pushAndMeasure(SystemMsg) > PromptTarget => prompt.result.messages = <<SystemMsg>>

\* C23: when the whole history fits under the target, buildPrompt returns
\* the system message followed by the full history, unmodified, in
\* chronological order.
C23_FullHistoryAfterSystem ==
  (Returned /\ pushAndMeasure(SystemMsg) + SumCost(prompt.history) <= PromptTarget)
    => prompt.result.messages = <<SystemMsg>> \o prompt.history

\* the selected history: what the loop put in front of the system message
SelectedHistory ==
  SubSeq(prompt.result.messages, 1, Len(prompt.result.messages) - 1)

\* C24: the selected history is a contiguous suffix of the history in
\* chronological order, and the largest that fits: with the system message
\* it costs at most the target unless nothing is selected, and the message
\* just before it, if any, would take the sum over the target.
C24_LargestSuffix ==
  Returned =>
    \E k \in 0..Len(prompt.history) :
      /\ SelectedHistory = HistorySuffix(k)
      /\ SelectedHistory # <<>>
         => pushAndMeasure(SystemMsg) + SumCost(SelectedHistory) <= PromptTarget
      /\ k > 0
         => pushAndMeasure(SystemMsg) + SumCost(SelectedHistory)
              + pushAndMeasure(prompt.history[k]) > PromptTarget

\* a history of three messages of which the newest two are selected
C24_Witness ==
  /\ Returned
  /\ Len(prompt.history) = 3
  /\ SelectedHistory = HistorySuffix(1)
  /\ pushAndMeasure(SystemMsg) + SumCost(prompt.history) > PromptTarget

\* C25: maxCompletionTokens is the headroom, promptTokens is the summed cost
\* of the returned messages, and whenever the system message alone fits the
\* target, promptTokens <= target and promptTokens + maxCompletionTokens <=
\* maxContextTokens.
C25_TokenAccounting ==
  Returned =>
    /\ prompt.result.maxCompletionTokens
         = Headroom(prompt.maxContextTokens, prompt.outputHeadroomRatio)
    /\ prompt.result.promptTokens = SumCost(prompt.result.messages)
    /\ pushAndMeasure(SystemMsg) <= PromptTarget
         => /\ prompt.result.promptTokens <= PromptTarget
            /\ prompt.result.promptTokens + prompt.result.maxCompletionTokens
                 <= prompt.maxContextTokens

\* a call with a positive headroom whose history is selected in part
C25_Witness ==
  /\ Returned
  /\ prompt.result.maxCompletionTokens > 0
  /\ pushAndMeasure(SystemMsg) <= PromptTarget
  /\ SelectedHistory # <<>>
  /\ Len(SelectedHistory) < Len(prompt.history)
  /\ prompt.result.promptTokens + prompt.result.maxCompletionTokens < prompt.maxContextTokens

----------------------------------------------------------------------------
(* Properties of the frame parser, over SpecSse *)

\* offset in the body of the end of the k-th frame's terminating blank line
FrameEnd(k) == Len(Body(SubSeq(sse.frames, 1, k)))

\* number of frames whose terminating blank line lies within the bytes read
CompleteFrames == Cardinality({k \in DOMAIN sse.frames : FrameEnd(k) <= sse.pos})

\* C29: however the body is split into read chunks, after any number of
\* reads the frames dispatched are exactly the emitted frames whose
\* terminating blank line has arrived, in emission order and once each, with
\* the emitted event name and data; the bytes after the last such frame are
\* kept (decoded in the buffer, or as the decoder's incomplete character),
\* parsing never throws, and at the end of the body every frame has been
\* dispatched.
C29_FramesIndependentOfChunking ==
  sse.pc # "none" =>
    /\ sse.pc # "failed"
    /\ sse.dispatched = SubSeq(sse.frames, 1, CompleteFrames)
    /\ encode(sse.buffer) \o sse.pending
         = SubSeq(sse.body, FrameEnd(CompleteFrames) + 1, sse.pos)
    /\ sse.pc = "done" => sse.dispatched = sse.frames

\* a read has ended between the two newlines that end the second frame, and
\* one inside the two-byte character of its data: the first frame is
\* dispatched, the second waits in the buffer
C29_Witness ==
  /\ sse.pc = "reading"
  /\ Len(sse.frames) = 2
  /\ sse.frames[2].data.value = <<"E9", "\n">>
  /\ sse.pos = Len(sse.body) - 1
  /\ sse.dispatched = <<sse.frames[1]>>
  /\ sse.buffer # <<>>

----------------------------------------------------------------------------
(* Properties of the client's store, over SpecClient and SpecClientTwo *)

\* the step is the handling of the response of the i-th load in flight
IsLoadApply(i) ==
  /\ i \in DOMAIN calls.loads
  /\ Len(calls'.loads) < Len(calls.loads)
  /\ store' = ApplyLoad(store, calls.loads[i])

\* the local message that loadConversation looks up, if there is one
HasLocalAssistant ==
  /\ store.currentAssistantId # NULL
  /\ store.currentAssistantId \in DOMAIN store.messagesById

LocalAssistant == store.messagesById[store.currentAssistantId]

\* C26: loading a conversation twice with no generation in between yields
\* identical message lists: whenever the response of a load is handled,
\* handling the same server list once more leaves the list (ids, order,
\* content, status) and both indexes as they are.
C26_LoadIdempotent ==
  [][\A i \in DOMAIN calls.loads :
       IsLoadApply(i) => ApplyLoad(store', calls.loads[i]) = store']_vars

\* a load has been handled during a stream, with a list older than the
\* placeholder: the list is the server's root and the local assistant message
C26_Witness ==
  /\ Len(store.messages) = 2
  /\ store.messages[1].role = "SYSTEM"
  /\ store.messages[2].role = "ASSISTANT"
  /\ store.messages[2].status = "STREAMING"
  /\ store.messages[2].content # <<>>

\* every generation has reached a terminal state in the table and closed
\* its stream, and no task of the client is reading any more
AllTerminal ==
  /\ \E r \in Reqs : req[r].pc = "done"
  /\ \A r \in Reqs : req[r].pc \in {"new", "done"}
  /\ \A i \in DOMAIN msgs : msgs[i].status \in TerminalStatuses
  /\ \A r \in Reqs : reader[r].pc \in {"none", "finished", "failed"}
  /\ ~calls.stop

\* C27: after a generation has reached its terminal state on the server, a
\* loadConversation (its GET served from the table as it is now) makes the
\* client's list equal to the table's list: same ids, content and status.
C27_ReloadReconciles ==
  [][\A i \in DOMAIN calls.loads :
       (AllTerminal /\ calls.loads[i] = GetMessages /\ IsLoadApply(i))
         => store'.messages = GetMessages]_vars

\* C30: when the response of a load is handled while a local STREAMING
\* assistant message exists and the server list was read during the stream
\* (its row is STREAMING), the merged message has the longer of the local
\* and the server content and the status STREAMING, and it is the same
\* message whether the list was read before the first checkpoint (content
\* still empty) or after it: its content is the local content; when the
\* server list lacks the message, the local message is appended.
C30_MergeKeepsLocalStream ==
  [][\A i \in DOMAIN calls.loads :
       (IsLoadApply(i) /\ HasLocalAssistant /\ LocalAssistant.status = "STREAMING")
         => LET data == calls.loads[i]
                id == store.currentAssistantId
                hits == {j \in DOMAIN data : data[j].messageId = id}
            IN IF hits = {}
               THEN store'.messages = Append(data, LocalAssistant)
               ELSE \A j \in hits :
                      data[j].status = "STREAMING" =>
                      /\ store'.messages[j].status = "STREAMING"
                      /\ store'.messages[j].content =
                           IF Len(LocalAssistant.content) > Len(data[j].content)
                           THEN LocalAssistant.content ELSE data[j].content
                      /\ store'.messages[j].content = LocalAssistant.content]_vars

\* the handles created so far, and those among them that are not aborted
Handles == {r \in Reqs : reader[r].pc # "none"}

LiveHandles == {r \in Handles : ~reader[r].aborted}

\* the run() tasks that still fetch or read
ProcessingReaders == {r \in LiveHandles : reader[r].pc \in {"fetching", "reading"}}

\* C28: openStream aborts the stored handle before it stores the new one:
\* at any time at most one handle of the conversation is not aborted, it is
\* the stored one if a handle is stored, and at most one task is still
\* processing frames.
C28_OneLiveHandle ==
  /\ Cardinality(LiveHandles) <= 1
  /\ store.controllers # NULL => LiveHandles \subseteq {store.controllers}
  /\ Cardinality(ProcessingReaders) <= 1

\* a second generation was opened while the first one's task had read
\* frames and was still reading: the first handle is aborted
C28_Witness ==
  \E r1, r2 \in Reqs :
    /\ r1 # r2
    /\ reader[r1].aborted
    /\ reader[r1].pc = "reading"
    /\ reader[r1].pos > 0
    /\ reader[r2].pc = "reading"
    /\ ~reader[r2].aborted
    /\ store.controllers = r2

----------------------------------------------------------------------------
(* The edit branch and the registry (route.ts 120-139, 188-189, 354-384) *)

\* the rows that answer the version an edit request replaces
AnswersOfPrior(table, e) ==
  {i \in DOMAIN table : table[i].parentId = req[e].userMessageParentId}

Running(r) ==
  /\ InStreamingLoop(r)
  /\ ~Aborted(r)
  /\ stream[r] = "open"
  /\ HasAssistantRow(r)
  /\ AssistantRowOf(r).status = "STREAMING"

\* C32: while a generation is running, the registry maps its conversation to
\* its handle (so that a stop request for the conversation aborts it).
C32_RunningIsRegistered ==
  \A r \in Reqs : Running(r) => controllers[req[r].conversationId] = r

\* C33: a row that an edit has marked INTERRUPTED ("user_edited_prompt") is
\* not overwritten with status COMPLETE or ERROR by a later step.
C33_EditMarkIsFinal ==
  [][\A i \in DOMAIN msgs :
       (msgs[i].status = "INTERRUPTED" /\ msgs[i].finishReason = "user_edited_prompt")
       => msgs'[i].status \notin {"COMPLETE", "ERROR"}]_vars

\* C34: once a generation has finished and closed its stream, the registry
\* does not hold its handle.
C34_FinishedIsUnregistered ==
  \A r \in Reqs :
    (req[r].pc = "done" /\ stream[r] = "closed")
    => controllers[req[r].conversationId] # r

\* C35: an assistant row with a terminal status has as content the fragments
\* of the token frames emitted for its generation, in order, and as
\* completion-token count their number.
C35_ContentIsEmittedTokens ==
  \A r \in Reqs :
    (HasAssistantRow(r) /\ AssistantRowOf(r).status \in TerminalStatuses)
    => /\ AssistantRowOf(r).content = TokenFragments(r)
       /\ AssistantRowOf(r).completionTokens = Len(TokenFragments(r))

\* the generation's own final write (COMPLETE, INTERRUPTED or ERROR) was made
FinalWriteDone(r) ==
  /\ HasAssistantRow(r)
  /\ req[r].pc \in {"title", "pipeline", "done"}
  /\ ~req[r].finalWriteFailed

IsPrefix(p, q) == Len(p) <= Len(q) /\ SubSeq(q, 1, Len(p)) = p

\* C35 amended: once a generation's own final write has persisted its row, the
\* row has a terminal status, its content is the fragments accumulated from
\* the upstream stream, in order, and its completion-token count is their
\* number; the token frames emitted carry exactly these fragments as long as
\* the consumer has not cancelled the stream, and all of them but the last
\* one otherwise.
C35_ContentIsAccumulated ==
  \A r \in Reqs :
    FinalWriteDone(r) =>
      /\ AssistantRowOf(r).status \in TerminalStatuses
      /\ AssistantRowOf(r).content = req[r].accumulated
      /\ AssistantRowOf(r).completionTokens = Len(req[r].accumulated)
      /\ IsPrefix(TokenFragments(r), req[r].accumulated)
      /\ Len(req[r].accumulated) <= Len(TokenFragments(r)) + 1
      /\ stream[r] # "cancelled" => TokenFragments(r) = req[r].accumulated

\* a generation that failed after two fragments and kept them
C35_Witness ==
  \E r \in Reqs :
    /\ FinalWriteDone(r)
    /\ AssistantRowOf(r).status = "ERROR"
    /\ stream[r] = "closed"
    /\ AssistantRowOf(r).content = <<"a", "b">>
    /\ TokenFragments(r) = <<"a", "b">>

----------------------------------------------------------------------------
(* The client's store during and after a stream (chat-store.ts 113-429) *)

\* the positions of generation r's assistant message in the client's list
ClientAssistant(r) ==
  {i \in DOMAIN store.messages : store.messages[i].messageId = req[r].assistantMessageId}

\* C36: the content of an assistant message in the client's list is a prefix
\* of what the server has accumulated for that message.
C36_ClientContentIsPrefix ==
  \A r \in Reqs :
    req[r].assistantMessageId # NULL =>
      \A i \in ClientAssistant(r) :
        IsPrefix(store.messages[i].content, req[r].accumulated)

\* the client has handled the terminal frame (end or error) of generation r
TerminalHandled(r) ==
  /\ reader[r].pc \in {"reading", "finished"}
  /\ reader[r].pos > 0
  /\ IsTerminal(events[r][reader[r].pos])

\* C37: after the client has handled a terminal frame of a generation, the
\* generation's assistant message is not STREAMING in the client's list.
C37_TerminalHandledNotStreaming ==
  \A r \in Reqs :
    TerminalHandled(r) =>
      \A i \in ClientAssistant(r) : store.messages[i].status # "STREAMING"

\* the openStream call made last
LatestOpened ==
  LET opened == {r \in Reqs : reader[r].pc # "none"}
  IN CHOOSE r \in opened : \A q \in opened : q <= r

\* C38: while the stream opened last has not been aborted, has not failed and
\* has handled no terminal frame, the streaming flag is true.
C38_FlagWhileLatestStreams ==
  (\E r \in Reqs : reader[r].pc # "none") =>
    LET r == LatestOpened
    IN (/\ reader[r].pc \in {"fetching", "reading"}
        /\ ~reader[r].aborted
        /\ ~TerminalHandled(r))
       => store.isStreaming

\* C39: the ids of the client's list are pairwise distinct, and both indexes
\* agree with the list.
C39_IndexesAgreeWithList ==
  /\ \A i, j \in DOMAIN store.messages :
       i # j => store.messages[i].messageId # store.messages[j].messageId
  /\ DOMAIN store.messageIndex = Ids(store.messages)
  /\ DOMAIN store.messagesById = Ids(store.messages)
  /\ \A id \in Ids(store.messages) :
       /\ store.messageIndex[id] \in DOMAIN store.messages
       /\ store.messages[store.messageIndex[id]].messageId = id
       /\ store.messages[store.messageIndex[id]] = store.messagesById[id]

----------------------------------------------------------------------------
(* The turn view (part_003 139-240) *)

\* the places <<turn, version>> of the turns at which message m is a user version
UserPlaces(turns, m) ==
  {p \in (DOMAIN turns) \X (1..MaxMessages) :
     /\ p[2] \in DOMAIN turns[p[1]].userVersions
     /\ turns[p[1]].userVersions[p[2]] = m}

\* the places <<turn, version id, variant>> at which message m is a variant
VariantPlaces(turns, m) ==
  {p \in (DOMAIN turns) \X (1..MaxMessages) \X (1..MaxMessages) :
     /\ p[2] \in DOMAIN turns[p[1]].assistantVariants
     /\ p[3] \in DOMAIN turns[p[1]].assistantVariants[p[2]]
     /\ turns[p[1]].assistantVariants[p[2]][p[3]] = m}

\* the grouping of the turns, without the selection indexes
Grouping(turns) ==
  [k \in DOMAIN turns |-> [userVersions |-> turns[k].userVersions,
                           assistantVariants |-> turns[k].assistantVariants]]

AnswersUserMessage(messages, m) ==
  /\ m.role = "ASSISTANT"
  /\ byIdHas(messages, m.parentId)
  /\ byIdGet(messages, m.parentId).role = "USER"

\* C40: once the effect has run, the turns are those organizeMessagesByTurns
\* gives for the list (the navigation handlers change selection indexes
\* only); every USER message is a version of exactly one turn; every
\* ASSISTANT message whose parent is a USER message of the list is in exactly
\* one variant list, its parent's; every variant list is in ascending
\* variant index.
C40_TurnsAreViewOfList ==
  turnView.pc = "idle" =>
    LET messages == turnView.messages
        turns == turnView.turns
    IN /\ Grouping(turns) = Grouping(organizeMessagesByTurns(messages))
       /\ \A i \in DOMAIN messages :
            /\ messages[i].role = "USER"
                 => Cardinality(UserPlaces(turns, messages[i])) = 1
            /\ messages[i].role # "USER"
                 => UserPlaces(turns, messages[i]) = {}
            /\ AnswersUserMessage(messages, messages[i])
                 => /\ Cardinality(VariantPlaces(turns, messages[i])) = 1
                    /\ \A p \in VariantPlaces(turns, messages[i]) :
                         p[2] = messages[i].parentId
            /\ ~AnswersUserMessage(messages, messages[i])
                 => VariantPlaces(turns, messages[i]) = {}
       /\ \A k \in DOMAIN turns : \A id \in DOMAIN turns[k].assistantVariants :
            LET variants == turns[k].assistantVariants[id]
            IN \A j \in 1..(Len(variants) - 1) :
                 variants[j].variantIndex <= variants[j + 1].variantIndex

\* a turn with two versions, one of them answered by two variants that the
\* list holds in descending variant index
C40_Witness ==
  /\ turnView.pc = "idle"
  /\ \E k \in DOMAIN turnView.turns :
       /\ Len(turnView.turns[k].userVersions) = 2
       /\ \E id \in DOMAIN turnView.turns[k].assistantVariants :
            LET variants == turnView.turns[k].assistantVariants[id]
            IN /\ Len(variants) = 2
               /\ variants[1].messageId > variants[2].messageId
               /\ variants[1].variantIndex < variants[2].variantIndex

====
